---- MODULE Spec2Model ----
(***************************************************************************)
(* Credential resolution and MCP session lifecycle of the AI service       *)
(* assistant backend: MCPClientService (mcp_client_service.py),            *)
(* LocalAgentService / CloudAgentService (local_agent_service.py,          *)
(* cloud_agent_service.py) and BedrockAgentCoreService                     *)
(* (bedrock_service.py).                                                   *)
(*                                                                         *)
(* One asyncio event loop runs the invocations.  `running` is the          *)
(* invocation that holds the loop's thread: synchronous code (boto3,       *)
(* requests, the strands agent) keeps it, an `await` gives it up.          *)
(***************************************************************************)
EXTENDS Integers, Sequences, FiniteSets, TLC

VARIABLES
    ssmVer,     \* version of the values held by the parameter store
    secVer,     \* version of the values held by the secret store
    calls,      \* number of invocations started so far
    running,    \* invocation whose synchronous code holds the event loop, 0 if none
    inv,        \* number -> the invocation
    sess,       \* invocation -> transport/session opened by its connect_to_mcp
    clients,    \* server key -> the agent service's MCPClient (self.mcp_clients)
    mode,       \* settings.environment
    boot        \* construction of the agent service: _initialize_agent

vars == <<ssmVer, secVer, calls, running, inv, sess, clients, mode, boot>>

-----------------------------------------------------------------------------
(* Bounds *)

MaxCalls == 2        \* invocations started in one behaviour
MaxRotations == 1    \* changes of the store values in one behaviour

\* Invocations are numbered in the order they start.
Inv == 1..MaxCalls

-----------------------------------------------------------------------------
(* The server descriptor table, mcp_client_service.py:41-57 *)

mcp_servers == {"udm", "edge_server", "ai_service"}

\* A key that is not in the table.
UnknownKey == "billing"

\* The order of the with-statement of invoke_agent.
ClientOrder == <<"udm", "edge_server", "ai_service">>

Environments == {"local", "production"}

\* What the ENVIRONMENT variable of the process may hold: nothing, or one of
\* the two values the services test for.
EnvValues == {"unset", "local", "production"}

\* Settings.environment: str = "local", read once when config is imported.
Setting(env) == IF env = "unset" THEN "local" ELSE env

\* Both services are instantiated whatever the mode.
LocalInstantiatedAlways(m) == m \in Environments

\* local_agent_service = LocalAgentService() if settings.environment == "local" else None
LocalInstantiated(m) == m = "local"

\* cloud_agent_service = CloudAgentService() if settings.environment == "production" else None
CloudInstantiated(m) == m = "production"

-----------------------------------------------------------------------------
(* Values *)

\* An exception: its class, str(e), and the class of the exception it was
\* raised from (its own class when it is not chained).
NoExc == [cls |-> "none", detail |-> "", cause |-> "none"]

Exc(c, d) == [cls |-> c, detail |-> d, cause |-> c]

NoToken == [call |-> 0, key |-> "none", sec |-> -1, cid |-> -1]

\* The identity provider's password grant: the token it issues is bound to
\* the client id and the secret presented, and is fresh (per call, per key).
PasswordGrant(call, key, cid, sec) ==
    [call |-> call, key |-> key, sec |-> sec, cid |-> cid]

NoResult == [success |-> FALSE, response |-> "", hasError |-> FALSE, error |-> "",
             session_id |-> "None"]

\* A part of a content list: {"text": ...} or a part without text.
TextPart(t) == [hasText |-> TRUE, text |-> t]
OtherPart == [hasText |-> FALSE, text |-> ""]

Ev(e, k) == [ev |-> e, key |-> k]

\* Python values the services take apart: a str, a dict (with an optional
\* 'content' entry and string-valued entries kv), None or another object.
NoneV == [t |-> "none", s |-> "", hasContent |-> FALSE, cIsList |-> FALSE,
          c |-> <<>>, kv |-> {}]
StrV(x) == [NoneV EXCEPT !.t = "str", !.s = x]
ObjV == [NoneV EXCEPT !.t = "obj"]
DictV(hasContent, cIsList, c, kv) ==
    [t |-> "dict", s |-> "", hasContent |-> hasContent, cIsList |-> cIsList,
     c |-> c, kv |-> kv]

\* What the agent call returned: an object that may carry a `message`
\* attribute, or a bare value (self).
NoRaw == [hasMessage |-> FALSE, message |-> NoneV, self |-> NoneV]

\* repr of a content part and of a content entry
StrOfPart(p) ==
    IF p.hasText THEN "{'text': '" \o p.text \o "'}" ELSE "{'toolUse': {}}"

StrOfContent(v) ==
    IF ~v.cIsList THEN "None"
    ELSE IF v.c = <<>> THEN "[]"
    ELSE "[" \o StrOfPart(v.c[1]) \o "]"

\* The string entries of a dict in a fixed order, as repr prints them.
KvKeys == <<"message", "response", "output", "text", "role">>

RECURSIVE StrOfKv(_, _)
StrOfKv(kv, n) ==
    IF n > Len(KvKeys) THEN ""
    ELSE LET here == {p \in kv : p[1] = KvKeys[n]} IN
         (IF here = {} THEN ""
          ELSE LET p == CHOOSE q \in here : TRUE IN
               "'" \o p[1] \o "': '" \o p[2] \o "', ")
         \o StrOfKv(kv, n + 1)

\* str(v)
StrOf(v) ==
    CASE v.t = "str" -> v.s
      [] v.t = "none" -> "None"
      [] v.t = "obj" -> "<object>"
      [] v.t = "dict" ->
           "{" \o StrOfKv(v.kv, 1)
               \o (IF v.hasContent THEN "'content': " \o StrOfContent(v) ELSE "")
               \o "}"

NoSess == [transport |-> "unopened", session |-> "unopened",
           tOpen |-> 0, tClose |-> 0, sOpen |-> 0, sClose |-> 0,
           hOk |-> 0, hdr |-> NoToken, headers |-> {}]

IdleInv == [svc |-> "none", op |-> "none", key |-> "none", tool |-> "none", call |-> 0,
            path |-> <<>>, handler |-> "none", status |-> 0,
            env |-> <<>>, listed |-> <<>>, tools |-> <<>>, shape |-> {}, user |-> "none", pwd |-> "none",
            um |-> "None", ms |-> "None", sid |-> "None", rsid |-> "None",
            events |-> <<>>, http |-> 0, body |-> NoResult,
            pc |-> "idle", exc |-> NoExc,
            arn |-> -1, secret |-> -1, clientId |-> -1, token |-> NoToken,
            startSsm |-> 0, startSec |-> 0,
            k |-> 0, raw |-> NoRaw,
            log |-> <<>>, ret |-> "", result |-> NoResult,
            outcome |-> "none"]

-----------------------------------------------------------------------------
(* Reads of the stores: always the value current at the time of the call *)

\* ssm_client.get_parameter(...)['Parameter']['Value']
GetParameter == ssmVer

\* A secret kept from before the store's last change.
GetSecretValueCached == IF secVer > 0 THEN secVer - 1 ELSE secVer

\* json.loads(secrets_client.get_secret_value(...)['SecretString'])
GetSecretValue == secVer

-----------------------------------------------------------------------------
(* The stores change under the running system *)

RotateParameter ==
    /\ ssmVer + secVer < MaxRotations
    /\ ssmVer' = ssmVer + 1
    /\ UNCHANGED <<secVer, calls, running, inv, sess, clients, mode, boot>>

RotateSecret ==
    /\ ssmVer + secVer < MaxRotations
    /\ secVer' = secVer + 1
    /\ UNCHANGED <<ssmVer, calls, running, inv, sess, clients, mode, boot>>

-----------------------------------------------------------------------------
(* MCPClientService.call_tool / list_tools, mcp_client_service.py:116-234 *)

Log(i, e) == Append(inv[i].log, Ev(e, inv[i].key))

\* An invocation that has not started, or whose caller has finished.
Free(i) == inv[i].pc \in {"idle", "gone"}

\* A request arrives when the loop is free; it is invocation calls + 1.
CanStart(i) ==
    /\ running = 0
    /\ calls < MaxCalls
    /\ i = calls + 1

\* The keys callers pass: keys of the table and one that is not in it.
CallKeys == {"udm", "edge_server", UnknownKey}

\* The tool a caller of call_tool names; list_tools takes no tool name.
ToolName(op) == IF op = "call_tool" THEN "get_all_subscriptions" ELSE "none"

\* The caller awaits mcp_client_service.call_tool(key, tool, ...) or list_tools(key).
MCPCall(i) ==
    /\ CanStart(i)
    /\ \E key \in CallKeys, op \in {"call_tool", "list_tools"} :
         inv' = [inv EXCEPT ![i] =
                   [IdleInv EXCEPT !.svc = "mcp", !.op = op, !.key = key,
                                   !.tool = ToolName(op),
                                   !.call = calls + 1, !.pc = "lookup",
                                   !.startSsm = ssmVer, !.startSec = secVer]]
    /\ calls' = calls + 1
    /\ running' = i
    /\ sess' = [sess EXCEPT ![i] = NoSess]
    /\ UNCHANGED <<ssmVer, secVer, clients, mode, boot>>

\* The session is yielded to the body as soon as it is entered, without
\* session.initialize().
MCPNextPcNoHandshake(pc) ==
    CASE pc = "lookup" -> "ssm_arn"
      [] pc = "ssm_arn" -> "secret"
      [] pc = "secret" -> "ssm_client_id"
      [] pc = "ssm_client_id" -> "initiate_auth"
      [] pc = "initiate_auth" -> "connect"
      [] pc = "connect" -> "session_enter"
      [] pc = "session_enter" -> "rpc"
      [] pc = "rpc" -> "close_session"
      [] pc = "close_session" -> "close_transport"
      [] pc = "close_transport" -> "exit"

\* Where control goes when connect_to_mcp runs on: the order of the steps of
\* _get_mcp_credentials and of the two nested `async with` blocks.
MCPNextPc(pc) ==
    CASE pc = "lookup" -> "ssm_arn"
      [] pc = "ssm_arn" -> "secret"
      [] pc = "secret" -> "ssm_client_id"
      [] pc = "ssm_client_id" -> "initiate_auth"
      [] pc = "initiate_auth" -> "connect"
      [] pc = "connect" -> "session_enter"
      [] pc = "session_enter" -> "initialize"
      [] pc = "initialize" -> "rpc"
      [] pc = "rpc" -> "close_session"
      [] pc = "close_session" -> "close_transport"
      [] pc = "close_transport" -> "exit"

\* A raise that is swallowed: control goes on with the next step.
MCPUnwindPcGoOn(pc) == MCPNextPc(pc)

\* A raise that leaves the coroutine at once, without leaving the
\* `async with` blocks it is in.
MCPUnwindPcNoExit(pc) == "exit"

\* A failed handshake or RPC is tried again from the credential resolution.
MCPUnwindPcRetry(pc) ==
    CASE pc \in {"lookup", "ssm_arn", "secret", "ssm_client_id",
                 "initiate_auth", "connect"} -> "exit"
      [] pc = "session_enter" -> "close_transport"
      [] pc \in {"initialize", "rpc"} -> "ssm_arn"

\* Where control goes when the step at pc raises: the `async with` blocks
\* entered so far are left innermost first, then call_tool's except re-raises.
MCPUnwindPc(pc) ==
    CASE pc \in {"lookup", "ssm_arn", "secret", "ssm_client_id",
                 "initiate_auth", "connect"} -> "exit"
      [] pc = "session_enter" -> "close_transport"
      [] pc \in {"initialize", "rpc"} -> "close_session"

\* The invocation leaves call_tool / list_tools: `return` or `raise`.
MCPLeave(r) ==
    [r EXCEPT !.pc = "done",
              !.outcome = IF r.exc = NoExc THEN "returned" ELSE "raised"]

\* The record after the step at its pc has completed (ok) or raised e.
MCPStep(r, e) ==
    LET to == IF e = NoExc THEN MCPNextPc(r.pc) ELSE MCPUnwindPc(r.pc)
        r2 == [r EXCEPT !.pc = to, !.exc = e]
    IN  IF to = "exit" THEN MCPLeave(r2) ELSE r2

\* Synchronous code (the boto3 calls of _get_mcp_credentials) keeps the loop;
\* the awaits on the network (connect, session, initialize, the RPC) give it up.
MCPSync == {"lookup", "ssm_arn", "secret", "ssm_client_id", "initiate_auth"}

\* Leaving the two `async with` blocks releases local resources only
\* (terminate_on_close=False: nothing is sent to the server), and leaving the
\* coroutine hands the loop to its caller, in the same task.
MCPHolds(r) == r.pc \in MCPSync \cup {"close_session", "close_transport", "done"}

MCPSet(i, r) ==
    /\ inv' = [inv EXCEPT ![i] = r]
    /\ running' = IF MCPHolds(r) THEN i ELSE 0

-----------------------------------------------------------------------------
(* The REST routes of the /mcp router, mcp_rest_endpoints.py:18-454         *)

Route(path, handler, key, tool) ==
    [path |-> path, handler |-> handler, key |-> key, tool |-> tool]

\* A path parameter of a route, such as {server_id}.
Param == "{}"

\* The routes in the order the decorators register them, each with its
\* handler and the server key and tool of the handler's one call_tool.
RestRoutes ==
    << Route(<<"udm", "subscriptions">>, "get_all_subscriptions", "udm", "get_all_subscriptions"),
       Route(<<"udm", "subscriptions", Param>>, "get_subscription", "udm", "get_subscription"),
       Route(<<"udm", "summary">>, "get_subscription_summary", "udm", "get_subscription_summary"),
       Route(<<"udm", "subscriptions", Param, "qos">>, "get_qos_profile", "udm", "get_qos_profile"),
       Route(<<"udm", "subscriptions", Param, "edge-ai">>, "get_edge_ai_subscriptions", "udm",
             "get_edge_ai_subscriptions"),
       Route(<<"edge", "servers">>, "get_all_edge_servers", "edge_server", "get_all_edge_servers"),
       Route(<<"edge", "servers", Param>>, "get_edge_server", "edge_server", "get_edge_server"),
       Route(<<"edge", "servers", Param, "resources">>, "get_server_resources", "edge_server",
             "get_server_resources"),
       Route(<<"edge", "servers", Param, "gpu">>, "get_gpu_resources", "edge_server",
             "get_gpu_resources"),
       Route(<<"edge", "servers", Param, "services">>, "get_deployed_services", "edge_server",
             "get_deployed_services"),
       Route(<<"edge", "network-summary">>, "get_network_summary", "edge_server",
             "get_network_summary"),
       Route(<<"edge", "health-status">>, "get_health_status", "edge_server",
             "get_server_health_status"),
       Route(<<"edge", "servers", "find-capacity">>, "find_servers_with_capacity", "edge_server",
             "find_servers_with_capacity"),
       Route(<<"ai-services", "services">>, "get_all_ai_services", "ai_service", "get_all_services"),
       Route(<<"ai-services", "services", Param>>, "get_ai_service", "ai_service", "get_service"),
       Route(<<"ai-services", "services", "search">>, "search_ai_services", "ai_service",
             "search_services"),
       Route(<<"ai-services", "categories">>, "get_service_categories", "ai_service",
             "get_categories"),
       Route(<<"ai-services", "summary">>, "get_catalog_summary", "ai_service",
             "get_catalog_summary"),
       Route(<<"ai-services", "services", Param, "requirements">>, "get_service_requirements",
             "ai_service", "get_service_requirements"),
       Route(<<"ai-services", "services", Param, "deployment">>, "get_deployment_info",
             "ai_service", "get_deployment_info"),
       Route(<<"ai-services", "services", "find-by-resources">>, "find_services_by_resources",
             "ai_service", "find_services_by_resources") >>

\* A route's path matches a request path segment by segment; a parameter
\* matches any segment.
Matches(pattern, path) ==
    /\ Len(pattern) = Len(path)
    /\ \A n \in 1..Len(path) : pattern[n] = Param \/ pattern[n] = path[n]

\* The router tries its routes in the order of registration and takes the
\* first that matches; 0 when none does.
FirstMatch(path) ==
    LET hits == {n \in 1..Len(RestRoutes) : Matches(RestRoutes[n].path, path)} IN
    IF hits = {} THEN 0 ELSE CHOOSE n \in hits : \A m \in hits : n <= m

\* The paths (after /mcp) of the GET requests the frontend sends.
RestPaths ==
    { <<"edge", "servers", "find-capacity">>,
      <<"edge", "servers", "edge-001">>,
      <<"edge", "health-status">>,
      <<"ai-services", "services", "search">>,
      <<"ai-services", "services", "find-by-resources">> }

\* GET /mcp/<path>: the handler of the first matching route runs and awaits
\* its call_tool.
RestGet(i) ==
    /\ CanStart(i)
    /\ \E path \in RestPaths :
         /\ FirstMatch(path) > 0
         /\ LET rt == RestRoutes[FirstMatch(path)] IN
            inv' = [inv EXCEPT ![i] =
                      [IdleInv EXCEPT !.svc = "mcp", !.op = "call_tool", !.key = rt.key,
                                      !.tool = rt.tool, !.path = path,
                                      !.handler = rt.handler,
                                      !.call = calls + 1, !.pc = "lookup",
                                      !.startSsm = ssmVer, !.startSec = secVer]]
    /\ calls' = calls + 1
    /\ running' = i
    /\ sess' = [sess EXCEPT ![i] = NoSess]
    /\ UNCHANGED <<ssmVer, secVer, clients, mode, boot>>

\* A lookup that answers for every key.
IsConfiguredAny(key) == key \in mcp_servers \cup {UnknownKey}

\* self.mcp_servers.get(server_key) is not None
IsConfigured(key) == key \in mcp_servers

\* server_config = self.mcp_servers.get(server_key); unknown -> ValueError
MCPLookup(i) ==
    /\ running = i
    /\ inv[i].svc = "mcp" /\ inv[i].pc = "lookup"
    /\ IF IsConfigured(inv[i].key)
         THEN MCPSet(i, MCPStep(inv[i], NoExc))
         ELSE MCPSet(i, MCPStep(inv[i], Exc("ValueError", "Unknown MCP server: " \o inv[i].key)))
    /\ UNCHANGED <<ssmVer, secVer, calls, sess, clients, mode, boot>>

\* ssm_client.get_parameter(Name=.../runtime/agent_arn)
MCPFetchAgentArn(i) ==
    /\ running = i
    /\ inv[i].svc = "mcp" /\ inv[i].pc = "ssm_arn"
    /\ \/ MCPSet(i, MCPStep([inv[i] EXCEPT !.arn = GetParameter,
                                           !.log = Log(i, "arn")], NoExc))
       \/ MCPSet(i, MCPStep([inv[i] EXCEPT !.log = Log(i, "arn")],
                            Exc("ClientError", "ParameterNotFound")))
    /\ UNCHANGED <<ssmVer, secVer, calls, sess, clients, mode, boot>>

\* secrets_client.get_secret_value(SecretId=.../cognito/credentials)
MCPFetchSecret(i) ==
    /\ running = i
    /\ inv[i].svc = "mcp" /\ inv[i].pc = "secret"
    /\ \/ MCPSet(i, MCPStep([inv[i] EXCEPT !.secret = GetSecretValue,
                                           !.log = Log(i, "secret")], NoExc))
       \/ MCPSet(i, MCPStep([inv[i] EXCEPT !.log = Log(i, "secret")],
                            Exc("ClientError", "ResourceNotFoundException")))
    /\ UNCHANGED <<ssmVer, secVer, calls, sess, clients, mode, boot>>

\* ssm_client.get_parameter(Name=.../runtime/client_id)
MCPFetchClientId(i) ==
    /\ running = i
    /\ inv[i].svc = "mcp" /\ inv[i].pc = "ssm_client_id"
    /\ \/ MCPSet(i, MCPStep([inv[i] EXCEPT !.clientId = GetParameter,
                                           !.log = Log(i, "client_id")], NoExc))
       \/ MCPSet(i, MCPStep([inv[i] EXCEPT !.log = Log(i, "client_id")],
                            Exc("ClientError", "ParameterNotFound")))
    /\ UNCHANGED <<ssmVer, secVer, calls, sess, clients, mode, boot>>

\* cognito_client.initiate_auth(...)['AuthenticationResult']['AccessToken']
MCPInitiateAuth(i) ==
    /\ running = i
    /\ inv[i].svc = "mcp" /\ inv[i].pc = "initiate_auth"
    /\ \/ MCPSet(i, MCPStep([inv[i] EXCEPT
                               !.token = PasswordGrant(inv[i].call, inv[i].key,
                                                       inv[i].clientId, inv[i].secret),
                               !.log = Log(i, "grant")], NoExc))
       \/ MCPSet(i, MCPStep([inv[i] EXCEPT !.log = Log(i, "grant")],
                            Exc("ClientError", "NotAuthorizedException")))
    /\ UNCHANGED <<ssmVer, secVer, calls, sess, clients, mode, boot>>

\* A token kept on the shared service object: the one another invocation
\* was granted, when there is one.
MCPHeaderTokenShared(i) ==
    LET others == {j \in Inv : j # i /\ inv[j].token # NoToken} IN
    IF others = {} THEN inv[i].token
    ELSE inv[CHOOSE j \in others : TRUE].token

\* The headers connect_to_mcp passes to streamablehttp_client, line 139-142:
\* a name and the fixed part of its value.
MCPHeaders ==
    {<<"Authorization", "Bearer">>, <<"Content-Type", "application/json">>}

\* The bearer token put in the headers of the transport, line 139-142.
MCPHeaderToken(i) == inv[i].token

\* Raised inside a task at the await it is suspended on when it is cancelled.
CancelledError == Exc("CancelledError", "cancelled")

\* async with streamablehttp_client(mcp_url, headers, ...) as (read, write, _)
MCPConnect(i) ==
    /\ running = 0
    /\ inv[i].svc = "mcp" /\ inv[i].pc = "connect"
    /\ \/ /\ inv' = [inv EXCEPT ![i] = MCPStep([inv[i] EXCEPT !.log = Log(i, "connect")], NoExc)]
          /\ sess' = [sess EXCEPT ![i].transport = "open",
                                  ![i].tOpen = @ + 1,
                                  ![i].hdr = MCPHeaderToken(i),
                                  ![i].headers = MCPHeaders]
       \/ /\ \E e \in {Exc("ConnectError", "All connection attempts failed"), CancelledError} :
               inv' = [inv EXCEPT ![i] = MCPStep([inv[i] EXCEPT !.log = Log(i, "connect")], e)]
          /\ UNCHANGED sess
    /\ running' = IF MCPHolds(inv'[i]) THEN i ELSE 0
    /\ UNCHANGED <<ssmVer, secVer, calls, clients, mode, boot>>

\* async with ClientSession(read_stream, write_stream) as session
MCPSessionEnter(i) ==
    /\ running = 0
    /\ inv[i].svc = "mcp" /\ inv[i].pc = "session_enter"
    /\ \/ /\ inv' = [inv EXCEPT ![i] = MCPStep([inv[i] EXCEPT !.log = Log(i, "session")], NoExc)]
          /\ sess' = [sess EXCEPT ![i].session = "open", ![i].sOpen = @ + 1]
       \/ /\ inv' = [inv EXCEPT ![i] = MCPStep([inv[i] EXCEPT !.log = Log(i, "session")], CancelledError)]
          /\ UNCHANGED sess
    /\ running' = IF MCPHolds(inv'[i]) THEN i ELSE 0
    /\ UNCHANGED <<ssmVer, secVer, calls, clients, mode, boot>>

\* await session.initialize(); then `yield session`
MCPInitialize(i) ==
    /\ running = 0
    /\ inv[i].svc = "mcp" /\ inv[i].pc = "initialize"
    /\ \/ /\ inv' = [inv EXCEPT ![i] = MCPStep([inv[i] EXCEPT !.log = Log(i, "initialize")], NoExc)]
          /\ sess' = [sess EXCEPT ![i].session = "ready", ![i].hOk = @ + 1]
       \/ /\ \E e \in {Exc("McpError", "initialize failed"), CancelledError} :
               inv' = [inv EXCEPT ![i] = MCPStep([inv[i] EXCEPT !.log = Log(i, "initialize")], e)]
          /\ UNCHANGED sess
    /\ running' = IF MCPHolds(inv'[i]) THEN i ELSE 0
    /\ UNCHANGED <<ssmVer, secVer, calls, clients, mode, boot>>

\* The envelopes session.call_tool may answer with.
ToolResults ==
    { [hasContent |-> TRUE,  content |-> <<TextPart("pong")>>],
      [hasContent |-> TRUE,  content |-> <<>>],
      [hasContent |-> FALSE, content |-> <<>>],
      [hasContent |-> TRUE,  content |-> <<OtherPart>>] }

\* str(result)
StrOfResult(res) ==
    IF ~res.hasContent THEN "CallToolResult()"
    ELSE IF res.content = <<>> THEN "CallToolResult(content=[])"
    ELSE "CallToolResult(content=[...])"

\* call_tool lines 191-195: the value returned, or the exception raised.
ExtractToolText(res) ==
    IF res.hasContent /\ Len(res.content) > 0
      THEN IF res.content[1].hasText
             THEN [exc |-> NoExc, ret |-> res.content[1].text]
             ELSE [exc |-> Exc("AttributeError", "object has no attribute 'text'"), ret |-> ""]
      ELSE [exc |-> NoExc, ret |-> StrOfResult(res)]

\* The input schemas a remote tool may declare: none, one without a
\* 'properties' key, one whose properties are empty, one with one property
\* and one with two.
NoSchema == [given |-> FALSE, hasProperties |-> FALSE, properties |-> <<>>]

Schema(ps) == [given |-> TRUE, hasProperties |-> TRUE, properties |-> ps]

Schemas ==
    {NoSchema, [NoSchema EXCEPT !.given = TRUE],
     Schema(<<>>), Schema(<<"id">>), Schema(<<"cpu", "memory">>)}

Tool(n, s) == [name |-> n, description |-> "about " \o n, inputSchema |-> s]

\* What session.list_tools may answer with: no tool, one tool, or two.
ToolLists ==
    {<<>>}
    \cup {<<Tool("first", s)>> : s \in Schemas}
    \cup {<<Tool("first", s), Tool("second", t)>> : s \in Schemas, t \in {NoSchema, Schema(<<"id">>)}}

\* A 'parameters' entry for every tool, empty when there is no property.
ToolInfoAlways(tool) ==
    [name |-> tool.name, description |-> tool.description,
     parameters |-> tool.inputSchema.properties]

\* lines 217-228: tool_info for one tool. `tool.inputSchema` is falsy when
\* absent or empty; .get('properties', {}) is falsy when missing or empty.
ToolInfo(tool) ==
    IF /\ tool.inputSchema.given
       /\ tool.inputSchema.hasProperties
       /\ tool.inputSchema.properties # <<>>
      THEN [name |-> tool.name, description |-> tool.description,
            parameters |-> tool.inputSchema.properties]
      ELSE [name |-> tool.name, description |-> tool.description]

\* lines 215-230: the loop over tool_result.tools, appending in order.
RECURSIVE ToolInfos(_)
ToolInfos(ts) ==
    IF ts = <<>> THEN <<>>
    ELSE <<ToolInfo(Head(ts))>> \o ToolInfos(Tail(ts))

\* The state of the session an RPC is issued on, kept in the log.
RpcEvent(i) == Ev("rpc:" \o sess[i].session, inv[i].key)

\* The body of the `async with`: one RPC (session.call_tool or
\* session.list_tools) and the extraction of the value returned.
MCPRpc(i) ==
    /\ running = 0
    /\ inv[i].svc = "mcp" /\ inv[i].pc = "rpc"
    /\ LET r == [inv[i] EXCEPT !.log = Append(@, RpcEvent(i))] IN
       \/ /\ r.op = "call_tool"
          /\ \E res \in ToolResults :
               LET x == ExtractToolText(res) IN
               inv' = [inv EXCEPT ![i] = MCPStep([r EXCEPT !.ret = x.ret, !.env = <<res>>],
                                                  x.exc)]
       \/ /\ r.op = "list_tools"
          /\ \E ts \in ToolLists :
               inv' = [inv EXCEPT ![i] = MCPStep([r EXCEPT !.ret = "tools", !.listed = ts,
                                                            !.tools = ToolInfos(ts)], NoExc)]
       \/ \E e \in {Exc("McpError", "tool call failed"), CancelledError} :
               inv' = [inv EXCEPT ![i] = MCPStep(r, e)]
    /\ running' = IF MCPHolds(inv'[i]) THEN i ELSE 0
    /\ UNCHANGED <<ssmVer, secVer, calls, sess, clients, mode, boot>>

\* ClientSession.__aexit__
MCPCloseSession(i) ==
    /\ running = i
    /\ inv[i].svc = "mcp" /\ inv[i].pc = "close_session"
    /\ sess' = [sess EXCEPT ![i].session = "closed", ![i].sClose = @ + 1]
    /\ inv' = [inv EXCEPT ![i] =
                 [MCPStep([inv[i] EXCEPT !.log = Log(i, "close_session")], NoExc)
                    EXCEPT !.exc = inv[i].exc]]
    /\ running' = IF MCPHolds(inv'[i]) THEN i ELSE 0
    /\ UNCHANGED <<ssmVer, secVer, calls, clients, mode, boot>>

\* streamablehttp_client's __aexit__, then call_tool returns or re-raises
MCPCloseTransport(i) ==
    /\ running = i
    /\ inv[i].svc = "mcp" /\ inv[i].pc = "close_transport"
    /\ sess' = [sess EXCEPT ![i].transport = "closed", ![i].tClose = @ + 1]
    /\ inv' = [inv EXCEPT ![i] =
                 MCPLeave([inv[i] EXCEPT !.log = Log(i, "close_transport")])]
    /\ running' = IF MCPHolds(inv'[i]) THEN i ELSE 0
    /\ UNCHANGED <<ssmVer, secVer, calls, clients, mode, boot>>

-----------------------------------------------------------------------------
(* LocalAgentService / CloudAgentService.invoke_agent,                      *)
(* local_agent_service.py:257-327, cloud_agent_service.py:354-422.          *)
(* invoke_agent has no await: it runs from call to return holding the loop. *)

\* self.agent is set by _initialize_agent, which __init__ runs only when
\* settings.environment names the service's own mode.
AgentInitialized(svc) ==
    /\ boot.pc = "built"
    /\ \/ svc = "local" /\ LocalInstantiated(mode)
       \/ svc = "cloud" /\ CloudInstantiated(mode)

\* Truthiness of the two inputs (`if messages:` / `elif user_message:`).
Messages == {"None", "[]", "[turn]"}
UserMessages == {"None", "", "hi"}
Truthy(x) == x \notin {"None", "", "[]"}

\* The final else branch missing: an absent input is taken for a prompt.
ChooseInputNoElse(um, ms) ==
    IF Truthy(ms) THEN "messages" ELSE "user_message"

\* The input form invoke_agent goes on with: "messages", "user_message", or
\* "missing" when it raises ValueError.
ChooseInput(um, ms) ==
    IF Truthy(ms) THEN "messages"
    ELSE IF Truthy(um) THEN "user_message"
    ELSE "missing"

MissingInput == Exc("ValueError", "Either user_message or messages must be provided")

ErrorPrefix(svc) ==
    CASE svc = "local" -> "Error invoking local agent: "
      [] svc = "cloud" -> "Error invoking cloud agent: "
      [] svc = "bedrock" -> "Error invoking agent: "

\* The dict returned after the with-statement has been left normally.
SuccessResult(text) ==
    [success |-> TRUE, response |-> text, hasError |-> FALSE, error |-> "",
     session_id |-> "None"]

\* A failure dict without the "error" entry.
FailureResultNoError(svc, d) ==
    [success |-> FALSE, response |-> ErrorPrefix(svc) \o d,
     hasError |-> FALSE, error |-> "", session_id |-> "None"]

\* The dict an except clause returns for error detail d.
FailureResult(svc, d) ==
    [success |-> FALSE, response |-> ErrorPrefix(svc) \o d,
     hasError |-> TRUE, error |-> d, session_id |-> "None"]

\* The session ids callers pass: none, or one of their own.
SessionIds == {"None", "s1"}

\* str(uuid.uuid4()): a fresh identifier, one per invocation.
Uuid(call) == "uuid-" \o ToString(call)

\* The "session_id" entry of the dict invoke_agent returns: the Bedrock
\* service replaces a missing session_id by a fresh uuid at its first
\* statement, the agent services hand back the argument as it is.
SessionIdOf(r) ==
    IF r.svc = "bedrock" /\ r.sid \in {"None", ""} THEN Uuid(r.call) ELSE r.sid

WithSession(res, r) == [res EXCEPT !.session_id = SessionIdOf(r)]

\* A handler that catches ValueError only.
IsExceptionValueError(e) == e.cls = "ValueError"

\* `except Exception` catches every exception that is not a BaseException only.
IsException(e) == e.cls \notin {"none", "CancelledError", "KeyboardInterrupt"}

\* except Exception as e: return {..., "success": False, "error": str(e)}
AgentHandler(r) ==
    IF IsException(r.exc)
      THEN [r EXCEPT !.pc = "done", !.outcome = "returned",
                     !.result = WithSession(FailureResult(r.svc, r.exc.detail), r)]
      ELSE [r EXCEPT !.pc = "done", !.outcome = "raised"]

AgentInvoke(i) ==
    /\ CanStart(i)
    /\ \E svc \in {"local", "cloud"}, um \in UserMessages, ms \in Messages,
          sid \in SessionIds :
         inv' = [inv EXCEPT ![i] =
                   [IdleInv EXCEPT !.svc = svc, !.op = "invoke_agent",
                                   !.um = um, !.ms = ms,
                                   !.sid = sid, !.rsid = sid,
                                   !.call = calls + 1, !.pc = "check_agent",
                                   !.startSsm = ssmVer, !.startSec = secVer]]
    /\ calls' = calls + 1
    /\ running' = i
    /\ sess' = [sess EXCEPT ![i] = NoSess]
    /\ UNCHANGED <<ssmVer, secVer, clients, mode, boot>>

\* First step of entering a client: the cloud client's create_client first
\* resolves the url and the token, the local one connects at once.
EnterPc(svc) == IF svc = "cloud" THEN "url" ELSE "start"

\* A raise that exits none of the clients entered.
AgentOpenOnRaiseNone(r) == 0

\* How many clients of the with-statement are open, and so are exited, when
\* the step at r.pc raises: none before the with-statement, those before the
\* one being entered, all three once the body runs.
AgentOpenOnRaise(r) ==
    CASE r.pc \in {"check_agent", "input"} -> 0
      [] r.pc \in {"url", "cred_secret", "grant", "start"} -> r.k - 1
      [] r.pc = "agent" -> Len(ClientOrder)

\* The keys a secret of the store may hold.
SecretKeys == {"client_id", "username", "password"}

\* The secrets the store may answer with: any of the keys may be missing.
SecretShapes == SUBSET SecretKeys

\* dict.get(key) without a default: a missing key gives None.
DictGetNone(fields, key, default) ==
    IF key \in fields THEN "stored-" \o key ELSE "None"

\* cognito_creds.get(key, default)
DictGet(fields, key, default) ==
    IF key \in fields THEN "stored-" \o key ELSE default

\* The local variables of credential resolution are gone once it is over.
Forget(r) == [r EXCEPT !.shape = {}, !.user = "none", !.pwd = "none"]

\* The return value of _get_cognito_credentials for a secret with these keys.
WithCredentials(r, fields) ==
    [r EXCEPT !.shape = fields,
              !.user = DictGet(fields, "username", "testuser"),
              !.pwd = DictGet(fields, "password", "MyPassword123!")]

\* The step at r.pc raised e.
AgentRaise(r, e) ==
    LET n == AgentOpenOnRaise(r) IN
    [Forget(r) EXCEPT !.exc = e, !.k = n, !.pc = IF n = 0 THEN "return" ELSE "exit"]

\* line 275 / 372: if not self.agent: raise Exception(...)
AgentCheck(i) ==
    /\ running = i
    /\ inv[i].svc \in {"local", "cloud"} /\ inv[i].pc = "check_agent"
    /\ inv' = [inv EXCEPT ![i] =
                 IF AgentInitialized(inv[i].svc)
                   THEN [inv[i] EXCEPT !.pc = "input"]
                   ELSE AgentRaise(inv[i], Exc("Exception", "agent not initialized"))]
    /\ UNCHANGED <<ssmVer, secVer, calls, running, sess, clients, mode, boot>>

\* lines 278-290 / 375-385: determine the input format
AgentInput(i) ==
    /\ running = i
    /\ inv[i].svc \in {"local", "cloud"} /\ inv[i].pc = "input"
    /\ inv' = [inv EXCEPT ![i] =
                 IF ChooseInput(inv[i].um, inv[i].ms) = "missing"
                   THEN AgentRaise(inv[i], MissingInput)
                   ELSE [inv[i] EXCEPT !.pc = EnterPc(inv[i].svc), !.k = 1]]
    /\ UNCHANGED <<ssmVer, secVer, calls, running, sess, clients, mode, boot>>

\* MCPClient.start() reports a failure of its background thread, the
\* failure of create_client included, as MCPClientInitializationError
\* raised from the original exception.
InitError(e) ==
    [cls |-> "MCPClientInitializationError",
     detail |-> "the client initialization failed", cause |-> e.cls]

CurKey(i) == ClientOrder[inv[i].k]

ALog(i, e) == Append(inv[i].log, Ev(e, CurKey(i)))

\* cloud_agent_service.py:73-92 _get_mcp_server_url
CloudFetchUrl(i) ==
    /\ running = i
    /\ inv[i].svc = "cloud" /\ inv[i].pc = "url"
    /\ \/ inv' = [inv EXCEPT ![i] = [inv[i] EXCEPT !.arn = GetParameter,
                                                   !.log = ALog(i, "url"),
                                                   !.pc = "cred_secret"]]
       \/ inv' = [inv EXCEPT ![i] =
                    AgentRaise([inv[i] EXCEPT !.log = ALog(i, "url")],
                               InitError(Exc("ClientError", "ParameterNotFound")))]
    /\ UNCHANGED <<ssmVer, secVer, calls, running, sess, clients, mode, boot>>

\* cloud_agent_service.py:47-71 _get_cognito_credentials: the secret is
\* fetched and must hold 'client_id' (KeyError otherwise).
CloudFetchSecret(i) ==
    /\ running = i
    /\ inv[i].svc = "cloud" /\ inv[i].pc = "cred_secret"
    /\ \/ \E fields \in SecretShapes :
            inv' = [inv EXCEPT ![i] =
                      IF "client_id" \in fields
                        THEN WithCredentials([inv[i] EXCEPT !.secret = GetSecretValue,
                                                            !.clientId = GetSecretValue,
                                                            !.log = ALog(i, "secret"),
                                                            !.pc = "grant"], fields)
                        ELSE AgentRaise([inv[i] EXCEPT !.log = ALog(i, "secret")],
                                        InitError(Exc("KeyError", "'client_id'")))]
       \/ inv' = [inv EXCEPT ![i] =
                    AgentRaise([inv[i] EXCEPT !.log = ALog(i, "secret")],
                               InitError(Exc("ClientError", "ResourceNotFoundException")))]
    /\ UNCHANGED <<ssmVer, secVer, calls, running, sess, clients, mode, boot>>

\* cloud_agent_service.py:94-125 _get_bearer_token: cognito initiate_auth
CloudGrant(i) ==
    /\ running = i
    /\ inv[i].svc = "cloud" /\ inv[i].pc = "grant"
    /\ \/ inv' = [inv EXCEPT ![i] =
                    [inv[i] EXCEPT !.token = PasswordGrant(inv[i].call, CurKey(i),
                                                           inv[i].clientId, inv[i].secret),
                                   !.log = ALog(i, "grant"),
                                   !.pc = "start"]]
       \/ inv' = [inv EXCEPT ![i] =
                    AgentRaise([inv[i] EXCEPT !.log = ALog(i, "grant")],
                               InitError(Exc("ClientError", "NotAuthorizedException")))]
    /\ UNCHANGED <<ssmVer, secVer, calls, running, sess, clients, mode, boot>>

\* The headers create_client passes to streamablehttp_client:
\* local_agent_service.py:48-51, cloud_agent_service.py:144-148.
AgentHeaders(svc) ==
    {<<"Content-Type", "application/json">>,
     <<"Accept", "application/json, text/event-stream">>}
    \cup (IF svc = "cloud" THEN {<<"Authorization", "Bearer">>} ELSE {})

\* The Authorization header create_client builds: none in local mode.
AgentHeaderToken(i) == IF inv[i].svc = "cloud" THEN inv[i].token ELSE NoToken

\* After client k has been entered: the next client, or the body.
AfterEnter(r) ==
    IF r.k < Len(ClientOrder)
      THEN [Forget(r) EXCEPT !.k = r.k + 1, !.pc = EnterPc(r.svc), !.token = NoToken]
      ELSE [Forget(r) EXCEPT !.pc = "agent"]

\* MCPClient.__enter__: streamablehttp_client(url, headers, ...) is opened
\* and the session initialized, or the client is left closed and raises.
ClientStart(i) ==
    /\ running = i
    /\ inv[i].svc \in {"local", "cloud"} /\ inv[i].pc = "start"
    /\ \/ /\ clients' = [clients EXCEPT ![CurKey(i)] =
                           [state |-> "ready", hdr |-> AgentHeaderToken(i),
                            headers |-> AgentHeaders(inv[i].svc)]]
          /\ inv' = [inv EXCEPT ![i] = AfterEnter([inv[i] EXCEPT !.log = ALog(i, "open")])]
       \/ /\ inv' = [inv EXCEPT ![i] =
                       AgentRaise([inv[i] EXCEPT !.log = ALog(i, "connect_failed")],
                                  InitError(Exc("ConnectError", "All connection attempts failed")))]
          /\ UNCHANGED clients
    /\ UNCHANGED <<ssmVer, secVer, calls, running, sess, mode, boot>>

\* What self.agent(conversation_input) may return.
AgentResults ==
    { [NoRaw EXCEPT !.self = StrV("hello")],
      [NoRaw EXCEPT !.hasMessage = TRUE, !.self = ObjV, !.message = StrV("hello")],
      [NoRaw EXCEPT !.hasMessage = TRUE, !.self = ObjV,
                    !.message = DictV(TRUE, TRUE, <<TextPart("hello")>>, {<<"role", "assistant">>})],
      [NoRaw EXCEPT !.hasMessage = TRUE, !.self = ObjV,
                    !.message = DictV(TRUE, TRUE, <<>>, {<<"role", "assistant">>})],
      [NoRaw EXCEPT !.hasMessage = TRUE, !.self = ObjV,
                    !.message = DictV(TRUE, TRUE, <<OtherPart>>, {<<"role", "assistant">>})],
      [NoRaw EXCEPT !.hasMessage = TRUE, !.self = ObjV,
                    !.message = DictV(FALSE, FALSE, <<>>, {<<"role", "assistant">>})],
      [NoRaw EXCEPT !.self = DictV(TRUE, TRUE, <<TextPart("hello")>>, {})],
      [NoRaw EXCEPT !.self = DictV(FALSE, FALSE, <<>>, {<<"message", "hello">>})],
      [NoRaw EXCEPT !.self = ObjV] }

\* lines 297-303: result.message, the str itself, or str(result)
FirstText(raw) ==
    IF raw.hasMessage THEN raw.message
    ELSE IF raw.self.t = "str" THEN raw.self
    ELSE StrV(StrOf(raw.self))

\* lines 305-310: a dict with 'content' gives its first part's text (or the
\* str of the content); then response_text[:100] is logged.
ExtractResponse(raw) ==
    LET rt == FirstText(raw) IN
    IF rt.t = "dict" /\ rt.hasContent
      THEN IF rt.cIsList /\ Len(rt.c) > 0
             THEN IF rt.c[1].hasText
                    THEN [exc |-> NoExc, text |-> rt.c[1].text]
                    ELSE [exc |-> Exc("KeyError", "'text'"), text |-> ""]
             ELSE [exc |-> NoExc, text |-> StrOfContent(rt)]
    ELSE IF rt.t = "str"
      THEN [exc |-> NoExc, text |-> rt.s]
      ELSE [exc |-> Exc("TypeError", "object is not subscriptable"), text |-> ""]

\* line 295: result = self.agent(conversation_input), then the extraction
AgentRun(i) ==
    /\ running = i
    /\ inv[i].svc \in {"local", "cloud"} /\ inv[i].pc = "agent"
    /\ LET r == [inv[i] EXCEPT !.log = Append(@, Ev("agent", "all"))] IN
       \/ \E raw \in AgentResults :
            LET x == ExtractResponse(raw) IN
            inv' = [inv EXCEPT ![i] =
                      IF x.exc = NoExc
                        THEN [r EXCEPT !.raw = raw, !.ret = x.text,
                                       !.k = Len(ClientOrder), !.pc = "exit"]
                        ELSE AgentRaise([r EXCEPT !.raw = raw], x.exc)]
       \/ inv' = [inv EXCEPT ![i] =
                    AgentRaise(r, Exc("EventLoopException", "model call failed"))]
    /\ UNCHANGED <<ssmVer, secVer, calls, running, sess, clients, mode, boot>>

\* The clients exited in the order they were entered.
ExitKeyForward(r) == ClientOrder[Len(ClientOrder) - r.k + 1]

\* The client the with-statement exits next: the innermost one still open.
ExitKey(r) == ClientOrder[r.k]

\* MCPClient.__exit__ of the innermost client still open
AgentExit(i) ==
    /\ running = i
    /\ inv[i].svc \in {"local", "cloud"} /\ inv[i].pc = "exit"
    /\ clients' = [clients EXCEPT ![ExitKey(inv[i])] =
                     [state |-> "closed", hdr |-> NoToken, headers |-> {}]]
    /\ inv' = [inv EXCEPT ![i] =
                 [inv[i] EXCEPT !.log = Append(@, Ev("close", ExitKey(inv[i]))),
                                !.k = inv[i].k - 1,
                                !.pc = IF inv[i].k = 1 THEN "return" ELSE "exit"]]
    /\ UNCHANGED <<ssmVer, secVer, calls, running, sess, mode, boot>>

\* `return {...}` of the try body, or of the except clause
AgentReturn(i) ==
    /\ running = i
    /\ inv[i].svc \in {"local", "cloud"} /\ inv[i].pc = "return"
    /\ inv' = [inv EXCEPT ![i] =
                 IF inv[i].exc = NoExc
                   THEN [inv[i] EXCEPT !.pc = "done", !.outcome = "returned",
                                       !.result = WithSession(SuccessResult(inv[i].ret), inv[i])]
                   ELSE AgentHandler(inv[i])]
    /\ UNCHANGED <<ssmVer, secVer, calls, running, sess, clients, mode, boot>>

-----------------------------------------------------------------------------
(* BedrockAgentCoreService.invoke_agent, bedrock_service.py:109-263.        *)
(* No await either: boto3 and requests block the loop until they answer.   *)

\* A body that is not JSON.
NotJsonV == [NoneV EXCEPT !.t = "notjson", !.s = "<html>"]

\* d.get(key), "" standing for None or the empty string (both falsy)
Get(d, key) ==
    IF \E p \in d.kv : p[1] = key
      THEN (CHOOSE p \in d.kv : p[1] = key)[2]
      ELSE ""

RECURSIVE JsonOfKv(_, _)
JsonOfKv(kv, n) ==
    IF n > Len(KvKeys) THEN ""
    ELSE LET here == {p \in kv : p[1] = KvKeys[n]} IN
         (IF here = {} THEN ""
          ELSE LET p == CHOOSE q \in here : TRUE IN
               "\"" \o p[1] \o "\": \"" \o p[2] \o "\", ")
         \o JsonOfKv(kv, n + 1)

\* json.dumps(v) of a dict
JsonDumps(v) ==
    "{" \o JsonOfKv(v.kv, 1)
        \o (IF ~v.hasContent THEN ""
            ELSE "\"content\": " \o
                 (IF ~v.cIsList THEN "null"
                  ELSE IF v.c = <<>> THEN "[]"
                  ELSE IF v.c[1].hasText THEN "[{\"text\": \"" \o v.c[1].text \o "\"}]"
                  ELSE "[{\"toolUse\": {}}]"))
        \o "}"

\* lines 195-215: the text taken from the parsed body
BedrockExtract(data) ==
    IF data.t = "str" THEN data.s
    ELSE IF data.t = "dict"
      THEN LET fromContent ==
                 IF data.hasContent /\ data.cIsList /\ Len(data.c) > 0 /\ data.c[1].hasText
                   THEN data.c[1].text ELSE ""
           IN  IF fromContent # "" THEN fromContent
               ELSE IF Get(data, "response") # "" THEN Get(data, "response")
               ELSE IF Get(data, "output") # "" THEN Get(data, "output")
               ELSE IF Get(data, "text") # "" THEN Get(data, "text")
               ELSE JsonDumps(data)
    ELSE StrOf(data)

NoResponse == [status |-> 0, body |-> NoneV]

\* What the agent runtime may answer to the POST.
Responses ==
    [status : {200},
     body : { StrV("hello"),
              DictV(TRUE, TRUE, <<TextPart("hello")>>, {<<"role", "assistant">>}),
              DictV(FALSE, FALSE, <<>>, {<<"message", "hello">>}),
              DictV(FALSE, FALSE, <<>>, {<<"response", "hello">>}),
              DictV(TRUE, TRUE, <<>>, {}),
              ObjV,
              NotJsonV }]
    \cup [status : {201, 404},
          body : { DictV(FALSE, FALSE, <<>>, {<<"message", "denied">>}), NotJsonV }]

\* response.raise_for_status(): HTTPError for 4xx and 5xx only
RaisesForStatus(status) == status >= 400 /\ status < 600

\* lines 228-263: the three except clauses, in order.  An HTTPError's detail
\* is extended with the error response's body.
BedrockErrorDetail(e, resp) ==
    IF e.cls = "HTTPError"
      THEN e.detail \o " - Response: " \o
           (IF resp.body.t = "notjson" THEN resp.body.s ELSE JsonDumps(resp.body))
      ELSE e.detail

BedrockHandler(r, e, resp) ==
    IF IsException(e)
      THEN [Forget(r) EXCEPT !.pc = "done", !.outcome = "returned", !.exc = e,
                     !.result = WithSession(FailureResult("bedrock",
                                                          BedrockErrorDetail(e, resp)), r)]
      ELSE [Forget(r) EXCEPT !.pc = "done", !.outcome = "raised", !.exc = e]

BLog(i, e) == Append(inv[i].log, Ev(e, "agent"))

\* Where invoke_agent returns to: its awaiting wrapper (invoke_agent_stream,
\* the /chat handler) goes on with the result, a direct caller has it.
BedrockBack(r) ==
    IF r.pc # "done" THEN r
    ELSE CASE r.op = "invoke_agent_stream" -> [r EXCEPT !.pc = "emit"]
           [] r.op = "chat" -> [r EXCEPT !.pc = "respond"]
           [] OTHER -> r

\* The invocation goes on to pc `to`, or is over (its result returned).
BedrockSet(i, r) ==
    /\ inv' = [inv EXCEPT ![i] = BedrockBack(r)]
    /\ UNCHANGED running

BedrockInvoke(i) ==
    /\ CanStart(i)
    /\ \E um \in UserMessages, ms \in Messages, sid \in SessionIds :
         inv' = [inv EXCEPT ![i] =
                   [IdleInv EXCEPT !.svc = "bedrock", !.op = "invoke_agent",
                                   !.key = "agent", !.um = um, !.ms = ms,
                                   !.sid = sid, !.rsid = sid,
                                   !.call = calls + 1, !.pc = "b_arn",
                                   !.startSsm = ssmVer, !.startSec = secVer]]
    /\ calls' = calls + 1
    /\ running' = i
    /\ sess' = [sess EXCEPT ![i] = NoSess]
    /\ UNCHANGED <<ssmVer, secVer, clients, mode, boot>>

\* _get_agent_arn, lines 28-46
BedrockGetAgentArn(i) ==
    /\ running = i
    /\ inv[i].svc = "bedrock" /\ inv[i].pc = "b_arn"
    /\ \/ BedrockSet(i, [inv[i] EXCEPT !.arn = GetParameter, !.log = BLog(i, "arn"),
                                       !.pc = "b_secret"])
       \/ BedrockSet(i, BedrockHandler([inv[i] EXCEPT !.log = BLog(i, "arn")],
                                       Exc("ClientError", "ParameterNotFound"), NoResponse))
    /\ UNCHANGED <<ssmVer, secVer, calls, sess, clients, mode, boot>>

\* _get_cognito_credentials, lines 48-73
BedrockGetCredentials(i) ==
    /\ running = i
    /\ inv[i].svc = "bedrock" /\ inv[i].pc = "b_secret"
    /\ \/ \E fields \in SecretShapes :
            IF "client_id" \in fields
              THEN BedrockSet(i, WithCredentials([inv[i] EXCEPT !.secret = GetSecretValue,
                                                                !.clientId = GetSecretValue,
                                                                !.log = BLog(i, "secret"),
                                                                !.pc = "b_grant"], fields))
              ELSE BedrockSet(i, BedrockHandler([inv[i] EXCEPT !.log = BLog(i, "secret")],
                                                Exc("KeyError", "'client_id'"), NoResponse))
       \/ BedrockSet(i, BedrockHandler([inv[i] EXCEPT !.log = BLog(i, "secret")],
                                       Exc("ClientError", "ResourceNotFoundException"),
                                       NoResponse))
    /\ UNCHANGED <<ssmVer, secVer, calls, sess, clients, mode, boot>>

\* _get_fresh_token, lines 75-107: cognito initiate_auth
BedrockInitiateAuth(i) ==
    /\ running = i
    /\ inv[i].svc = "bedrock" /\ inv[i].pc = "b_grant"
    /\ \/ BedrockSet(i, [inv[i] EXCEPT
                           !.token = PasswordGrant(inv[i].call, "agent",
                                                   inv[i].clientId, inv[i].secret),
                           !.log = BLog(i, "grant"), !.pc = "b_payload"])
       \/ BedrockSet(i, BedrockHandler([inv[i] EXCEPT !.log = BLog(i, "grant")],
                                       Exc("ClientError", "NotAuthorizedException"),
                                       NoResponse))
    /\ UNCHANGED <<ssmVer, secVer, calls, sess, clients, mode, boot>>

\* A value of `messages` that is a list of turns.
IsTurnList(ms) == ms \in {"[]", "[turn]"}

\* lines 157-170: the payload, from messages or from user_message.  With
\* messages the latest turn is logged as messages[-1]['content'][0]['text'],
\* which raises TypeError when messages is a str.
BedrockPayload(i) ==
    /\ running = i
    /\ inv[i].svc = "bedrock" /\ inv[i].pc = "b_payload"
    /\ CASE ChooseInput(inv[i].um, inv[i].ms) = "missing" ->
              BedrockSet(i, BedrockHandler(inv[i], MissingInput, NoResponse))
         [] ChooseInput(inv[i].um, inv[i].ms) = "messages" /\ ~IsTurnList(inv[i].ms) ->
              BedrockSet(i, BedrockHandler(inv[i],
                               Exc("TypeError", "string indices must be integers"),
                               NoResponse))
         [] OTHER -> BedrockSet(i, [Forget(inv[i]) EXCEPT !.pc = "b_post"])
    /\ UNCHANGED <<ssmVer, secVer, calls, sess, clients, mode, boot>>

\* The token of the Authorization header of the POST, line 152-155.
BedrockHeaderToken(i) == inv[i].token

\* Any 2xx status is taken for an answer.
IsOkAny2xx(status) == status >= 200 /\ status < 300

\* response.status_code == 200, lines 186 and 191
IsOk(status) == status = 200

\* lines 186-226, given the response: raise_for_status, json(), extraction.
BedrockParse(r, resp) ==
    IF ~IsOk(resp.status)
      THEN IF RaisesForStatus(resp.status)
             THEN BedrockHandler(r, Exc("HTTPError", ToString(resp.status) \o " Client Error"), resp)
             ELSE BedrockHandler(r, Exc("Exception",
                                        "Unexpected status code: " \o ToString(resp.status)), resp)
      ELSE IF resp.body.t = "notjson"
             THEN BedrockHandler(r, Exc("JSONDecodeError", "Expecting value"), resp)
             ELSE [r EXCEPT !.pc = "done", !.outcome = "returned",
                            !.ret = BedrockExtract(resp.body),
                            !.result = WithSession(SuccessResult(BedrockExtract(resp.body)), r)]

\* lines 176-181: requests.post(url, headers, json=payload, timeout), and
\* what follows it up to the return
BedrockPost(i) ==
    /\ running = i
    /\ inv[i].svc = "bedrock" /\ inv[i].pc = "b_post"
    /\ LET r == [inv[i] EXCEPT !.log = BLog(i, "post")] IN
       \/ \E resp \in Responses :
            /\ BedrockSet(i, BedrockParse([r EXCEPT !.raw = [NoRaw EXCEPT !.self = resp.body],
                                                      !.status = resp.status], resp))
            /\ sess' = [sess EXCEPT ![i].hdr = BedrockHeaderToken(i)]
       \/ /\ BedrockSet(i, BedrockHandler(r, Exc("Timeout", "Read timed out"), NoResponse))
          /\ sess' = [sess EXCEPT ![i].hdr = BedrockHeaderToken(i)]
    /\ UNCHANGED <<ssmVer, secVer, calls, clients, mode, boot>>

-----------------------------------------------------------------------------
(* BedrockAgentCoreService.invoke_agent_stream, bedrock_service.py:265-289 *)

\* The values /chat/stream passes for `message` (a str is required).
StreamMessages == {"", "hi"}

\* result = await self.invoke_agent(user_message, session_id): the two
\* arguments are positional, so they bind to invoke_agent's first two
\* parameters, user_message and messages; its session_id keeps its default.
BedrockStream(i) ==
    /\ CanStart(i)
    /\ \E um \in StreamMessages, sid \in SessionIds :
         inv' = [inv EXCEPT ![i] =
                   [IdleInv EXCEPT !.svc = "bedrock", !.op = "invoke_agent_stream",
                                   !.key = "agent", !.um = um, !.ms = sid,
                                   !.sid = "None", !.rsid = sid,
                                   !.call = calls + 1, !.pc = "b_arn",
                                   !.startSsm = ssmVer, !.startSec = secVer]]
    /\ calls' = calls + 1
    /\ running' = i
    /\ sess' = [sess EXCEPT ![i] = NoSess]
    /\ UNCHANGED <<ssmVer, secVer, clients, mode, boot>>

\* The event yielded for a result: json.dumps of content or error, with the
\* result's session_id.
StreamEvent(res) ==
    IF res.success
      THEN [type |-> "content", text |-> res.response, session_id |-> res.session_id]
      ELSE [type |-> "error",
            text |-> IF res.hasError THEN res.error ELSE "Unknown error",
            session_id |-> res.session_id]

\* lines 284-289: one yield, then the generator ends
StreamEmit(i) ==
    /\ running = i
    /\ inv[i].svc = "bedrock" /\ inv[i].pc = "emit"
    /\ inv' = [inv EXCEPT ![i] =
                 [inv[i] EXCEPT !.events = Append(@, StreamEvent(inv[i].result)),
                                !.pc = "ended"]]
    /\ UNCHANGED <<ssmVer, secVer, calls, running, sess, clients, mode, boot>>

-----------------------------------------------------------------------------
(* POST /chat, main.py:190-244 *)

\* request.messages: as for invoke_agent, and a history whose last turn has
\* an empty content list.
ChatMessages == Messages \cup {"[turn()]"}

\* A ChatRequest arrives: message, messages and session_id are all optional.
Chat(i) ==
    /\ CanStart(i)
    /\ \E um \in UserMessages, ms \in ChatMessages, sid \in SessionIds :
         inv' = [inv EXCEPT ![i] =
                   [IdleInv EXCEPT !.svc = "bedrock", !.op = "chat",
                                   !.key = "agent", !.um = um, !.ms = ms,
                                   !.rsid = sid,
                                   !.call = calls + 1, !.pc = "chat",
                                   !.startSsm = ssmVer, !.startSec = secVer]]
    /\ calls' = calls + 1
    /\ running' = i
    /\ sess' = [sess EXCEPT ![i] = NoSess]
    /\ UNCHANGED <<ssmVer, secVer, clients, mode, boot>>

\* lines 242-244: `except Exception as e` catches whatever the try body
\* raised, the handler's own HTTPException included, and raises
\* HTTPException(status_code=500, detail=str(e)).
ChatExcept(r, e) ==
    [r EXCEPT !.exc = e, !.http = 500, !.pc = "ended"]

\* lines 201-233: the request is turned into the arguments of invoke_agent,
\* or the handler raises.
ChatDispatch(i) ==
    /\ running = i
    /\ inv[i].svc = "bedrock" /\ inv[i].pc = "chat"
    /\ inv' = [inv EXCEPT ![i] =
         CASE inv[i].ms = "[turn()]" ->
                \* messages_dict[-1]['content'][0] of the log line
                ChatExcept(inv[i], Exc("IndexError", "list index out of range"))
           [] inv[i].ms # "[turn()]" /\ Truthy(inv[i].ms) ->
                [inv[i] EXCEPT !.um = "None", !.sid = inv[i].rsid, !.pc = "b_arn"]
           [] ~Truthy(inv[i].ms) /\ Truthy(inv[i].um) ->
                [inv[i] EXCEPT !.ms = "None", !.sid = inv[i].rsid, !.pc = "b_arn"]
           [] OTHER ->
                ChatExcept(inv[i],
                           Exc("HTTPException",
                               "400: Either 'message' or 'messages' must be provided"))]
    /\ UNCHANGED <<ssmVer, secVer, calls, running, sess, clients, mode, boot>>

\* ChatResponse(response=..., session_id=..., success=..., error=result.get("error"))
ChatResponse(res) ==
    [res EXCEPT !.error = IF res.hasError THEN res.error ELSE "None"]

\* An endpoint that answers a failed result with a server error.
ChatStatusByOutcome(res) == IF res.success THEN 200 ELSE 502

\* The status of the answer to a result: ChatResponse requires session_id to
\* be a str (a validation error is an Exception, so 500); otherwise the
\* model is returned, with 200 whatever its success field says.
ChatStatus(res) == IF res.session_id = "None" THEN 500 ELSE 200

\* lines 235-240: return ChatResponse(...)
ChatRespond(i) ==
    /\ running = i
    /\ inv[i].svc = "bedrock" /\ inv[i].pc = "respond"
    /\ inv' = [inv EXCEPT ![i] =
                 IF ChatStatus(inv[i].result) = 200
                   THEN [inv[i] EXCEPT !.http = 200,
                                       !.body = ChatResponse(inv[i].result),
                                       !.pc = "ended"]
                   ELSE [inv[i] EXCEPT !.http = ChatStatus(inv[i].result),
                                       !.pc = "ended"]]
    /\ UNCHANGED <<ssmVer, secVer, calls, running, sess, clients, mode, boot>>

-----------------------------------------------------------------------------
(* LocalAgentService / CloudAgentService._initialize_agent,                 *)
(* local_agent_service.py:62-121, cloud_agent_service.py:159-218            *)

NoClient == [state |-> "closed", hdr |-> NoToken, headers |-> {}]

\* The service object before __init__ has run.
NewBoot == [pc |-> "new", k |-> 0, tools |-> {}, warned |-> {}, agentTools |-> {},
            exc |-> NoExc, log |-> <<>>]

\* The service whose agent has been built with the tools of all servers.
BuiltBoot == [NewBoot EXCEPT !.pc = "built", !.tools = mcp_servers,
                             !.agentTools = mcp_servers]

\* The server whose tools are being collected.
BootKey == ClientOrder[boot.k]

BLogged(e, k) == \E n \in 1..Len(boot.log) : boot.log[n] = Ev(e, k)

\* After the try block of server k: the next server's, or the agent is built.
BootNext(b) ==
    IF b.k < Len(ClientOrder)
      THEN [b EXCEPT !.k = b.k + 1, !.pc = "enter"]
      ELSE [b EXCEPT !.pc = "build"]

\* The except clause without its own try block: the failure leaves
\* _initialize_agent through the outer handler.
BootAbort(b, k, e) ==
    [b EXCEPT !.pc = "failed", !.exc = e,
              !.log = Append(@, Ev("error", k))]

\* except Exception as e: logger.warning(...) of the server's try block
BootWarn(b, k, e) ==
    BootNext([b EXCEPT !.warned = @ \cup {k}, !.exc = e,
                       !.log = Append(@, Ev("warning", k))])

\* __init__ calls _initialize_agent, which first makes the three clients.
BootStart ==
    /\ boot.pc = "new"
    /\ boot' = [boot EXCEPT !.pc = "enter", !.k = 1]
    /\ UNCHANGED <<ssmVer, secVer, calls, running, inv, sess, clients, mode>>

\* What entering a client may raise: the transport cannot be opened, or,
\* in production, create_client's resolution of url and token fails.
BootEnterFailures ==
    {InitError(Exc("ConnectError", "All connection attempts failed"))}
    \cup (IF mode = "production"
            THEN {InitError(Exc("ClientError", "ParameterNotFound"))} ELSE {})

\* The token of the headers create_client builds during construction.
BootHeaderToken(k) ==
    IF mode = "production" THEN PasswordGrant(0, k, GetSecretValue, GetSecretValue)
    ELSE NoToken

\* with self.mcp_clients[k]: MCPClient.__enter__
BootEnter ==
    /\ boot.pc = "enter"
    /\ \/ /\ clients' = [clients EXCEPT ![BootKey] =
                           [state |-> "ready", hdr |-> BootHeaderToken(BootKey),
                            headers |-> AgentHeaders(IF mode = "production"
                                                       THEN "cloud" ELSE "local")]]
          /\ boot' = [boot EXCEPT !.pc = "list",
                                  !.log = Append(@, Ev("open", BootKey))]
       \/ /\ \E e \in BootEnterFailures :
               boot' = BootWarn([boot EXCEPT !.log = Append(@, Ev("open_failed", BootKey))],
                                BootKey, e)
          /\ UNCHANGED clients
    /\ UNCHANGED <<ssmVer, secVer, calls, running, inv, sess, mode>>

\* tools = self.mcp_clients[k].list_tools_sync(); all_tools.extend(tools)
BootList ==
    /\ boot.pc = "list"
    /\ \/ boot' = [boot EXCEPT !.tools = @ \cup {BootKey}, !.pc = "exit",
                                !.exc = NoExc,
                                !.log = Append(@, Ev("listed", BootKey))]
       \/ boot' = [boot EXCEPT !.pc = "exit",
                                !.exc = Exc("MCPClientError", "list_tools failed"),
                                !.log = Append(@, Ev("list_failed", BootKey))]
    /\ UNCHANGED <<ssmVer, secVer, calls, running, inv, sess, clients, mode>>

\* MCPClient.__exit__, then the except clause when list_tools_sync raised
BootExit ==
    /\ boot.pc = "exit"
    /\ clients' = [clients EXCEPT ![BootKey] = NoClient]
    /\ LET b == [boot EXCEPT !.log = Append(@, Ev("close", BootKey))] IN
       boot' = IF BLogged("list_failed", BootKey)
                 THEN BootWarn(b, BootKey, boot.exc)
                 ELSE BootNext(b)
    /\ UNCHANGED <<ssmVer, secVer, calls, running, inv, sess, mode>>

\* model = BedrockModel(...); self.agent = Agent(model, tools=all_tools, ...);
\* a raise here leaves __init__ and no service object exists.
BootBuild ==
    /\ boot.pc = "build"
    /\ \/ boot' = [boot EXCEPT !.pc = "built", !.agentTools = boot.tools]
       \/ boot' = [boot EXCEPT !.pc = "failed",
                                !.exc = Exc("ModelError", "model not available")]
    /\ UNCHANGED <<ssmVer, secVer, calls, running, inv, sess, clients, mode>>

BootSteps == BootStart \/ BootEnter \/ BootList \/ BootExit \/ BootBuild

-----------------------------------------------------------------------------

Init ==
    /\ ssmVer = 0
    /\ secVer = 0
    /\ calls = 0
    /\ running = 0
    /\ inv = [i \in Inv |-> IdleInv]
    /\ sess = [i \in Inv |-> NoSess]
    /\ clients = [k \in mcp_servers |-> NoClient]
    /\ mode \in {Setting(e) : e \in EnvValues}
    /\ boot = BuiltBoot

\* The caller goes on with the result (or the exception) of the invocation
\* and finishes.
Collect(i) ==
    /\ running = i
    /\ inv[i].pc \in {"done", "ended"}
    /\ inv' = [inv EXCEPT ![i] = [IdleInv EXCEPT !.pc = "gone"]]
    /\ sess' = [sess EXCEPT ![i] = NoSess]
    /\ running' = 0
    /\ UNCHANGED <<ssmVer, secVer, calls, clients, mode, boot>>

\* No invocation is in flight.
Quiet == \A j \in Inv : Free(j)

\* The steps of an invocation that has started.
MCPSteps(i) ==
    \/ MCPLookup(i)
    \/ MCPFetchAgentArn(i)
    \/ MCPFetchSecret(i)
    \/ MCPFetchClientId(i)
    \/ MCPInitiateAuth(i)
    \/ MCPConnect(i)
    \/ MCPSessionEnter(i)
    \/ MCPInitialize(i)
    \/ MCPRpc(i)
    \/ MCPCloseSession(i)
    \/ MCPCloseTransport(i)

AgentSteps(i) ==
    \/ AgentCheck(i)
    \/ AgentInput(i)
    \/ CloudFetchUrl(i)
    \/ CloudFetchSecret(i)
    \/ CloudGrant(i)
    \/ ClientStart(i)
    \/ AgentRun(i)
    \/ AgentExit(i)
    \/ AgentReturn(i)

BedrockSteps(i) ==
    \/ BedrockGetAgentArn(i)
    \/ BedrockGetCredentials(i)
    \/ BedrockInitiateAuth(i)
    \/ BedrockPayload(i)
    \/ BedrockPost(i)
    \/ StreamEmit(i)
    \/ ChatDispatch(i)
    \/ ChatRespond(i)

\* Requests served one after another, by any of the services, while the
\* stores' values change.
Next ==
    \/ RotateParameter
    \/ RotateSecret
    \/ \E i \in Inv :
         \/ Quiet /\ MCPCall(i)
         \/ Quiet /\ AgentInvoke(i)
         \/ Quiet /\ BedrockInvoke(i)
         \/ Quiet /\ BedrockStream(i)
         \/ Quiet /\ Chat(i)
         \/ MCPSteps(i)
         \/ AgentSteps(i)
         \/ BedrockSteps(i)
         \/ Collect(i)

Spec == Init /\ [][Next]_vars

\* Requests to MCPClientService and to the cloud agent served concurrently:
\* a new one may start whenever the loop is free.
NextConc ==
    \E i \in Inv :
       \/ MCPCall(i)
       \/ AgentInvoke(i)
       \/ MCPSteps(i)
       \/ AgentSteps(i)
       \/ Collect(i)

InitConc == Init /\ mode = "production"

SpecConc == InitConc /\ [][NextConc]_vars

\* Chat requests, streamed chats and tool calls of the REST endpoints served
\* by one event loop: a request is taken up whenever the loop is free.
NextChat ==
    \E i \in Inv :
       \/ Chat(i)
       \/ BedrockStream(i)
       \/ MCPCall(i)
       \/ RestGet(i)
       \/ BedrockSteps(i)
       \/ MCPSteps(i)
       \/ Collect(i)

SpecChat == Init /\ [][NextChat]_vars

\* The agent service from its construction on: the tools are collected, the
\* agent is built, then requests are served one after another.
InitBoot ==
    /\ ssmVer = 0
    /\ secVer = 0
    /\ calls = 0
    /\ running = 0
    /\ inv = [i \in Inv |-> IdleInv]
    /\ sess = [i \in Inv |-> NoSess]
    /\ clients = [k \in mcp_servers |-> NoClient]
    /\ mode \in {Setting(e) : e \in EnvValues}
    /\ boot = NewBoot

NextBoot ==
    \/ BootSteps
    \/ \E i \in Inv :
         \/ boot.pc = "built" /\ Quiet /\ AgentInvoke(i)
         \/ AgentSteps(i)
         \/ Collect(i)

SpecBoot == InitBoot /\ [][NextBoot]_vars

-----------------------------------------------------------------------------
(* Session closure of MCPClientService *)

Closed(s) ==
    /\ s.transport # "open"
    /\ s.session \notin {"open", "ready"}

\* C1: when a call_tool or list_tools invocation has returned or raised,
\* on whatever path (normal completion, a failed credential step, a failed
\* connect, a failed initialize, a failed RPC, cancellation at an await),
\* every transport and session it opened has been closed exactly once and
\* none is open; at no time is anything closed more often than opened.
C1_SessionClosure ==
    \A i \in Inv :
       /\ sess[i].tClose <= sess[i].tOpen /\ sess[i].tOpen <= 1
       /\ sess[i].sClose <= sess[i].sOpen /\ sess[i].sOpen <= 1
       /\ (inv[i].svc = "mcp" /\ inv[i].pc = "done") =>
             /\ sess[i].tClose = sess[i].tOpen
             /\ sess[i].sClose = sess[i].sOpen
             /\ Closed(sess[i])

\* An invocation cancelled during its RPC has raised with its session and
\* transport closed once each, while another invocation's transport is open.
C1_Witness ==
    \E i, j \in Inv :
       /\ i # j
       /\ inv[i].svc = "mcp" /\ inv[i].pc = "done"
       /\ inv[i].exc = CancelledError
       /\ sess[i].sOpen = 1 /\ sess[i].sClose = 1
       /\ sess[i].tOpen = 1 /\ sess[i].tClose = 1
       /\ sess[j].transport = "open"

-----------------------------------------------------------------------------
(* Session closure of the agent services *)

Agents == {"local", "cloud"}

\* Position of event e for key k in the log of invocation i, 0 if absent.
Pos(i, e, k) ==
    LET at == {n \in 1..Len(inv[i].log) : inv[i].log[n] = Ev(e, k)} IN
    IF at = {} THEN 0 ELSE CHOOSE n \in at : \A m \in at : n <= m

Logged(i, e, k) == Pos(i, e, k) > 0

\* C2: when invoke_agent of the local or the cloud agent service has
\* returned, the three MCP clients (udm, edge_server, ai_service) are all
\* closed, whether the agent call succeeded, raised, or a later client
\* failed to open after earlier ones were open.
C2_AgentSessionsClosed ==
    \A i \in Inv :
       (inv[i].svc \in Agents /\ inv[i].pc = "done") =>
          \A k \in mcp_servers : clients[k].state = "closed"

\* The third client failed to open after the first two were open; both
\* were closed and the failure result returned.
C2_Witness ==
    \E i \in Inv :
       /\ inv[i].svc \in Agents /\ inv[i].pc = "done"
       /\ Logged(i, "open", "udm") /\ Logged(i, "open", "edge_server")
       /\ Logged(i, "connect_failed", "ai_service")
       /\ Logged(i, "close", "udm") /\ Logged(i, "close", "edge_server")
       /\ ~inv[i].result.success
       /\ \A k \in mcp_servers : clients[k].state = "closed"

-----------------------------------------------------------------------------
(* The result of invoke_agent *)

Invokers == Agents \cup {"bedrock"}

\* The error detail the except clause of the service reports for the
\* exception the invocation ended with.
Detail(r) ==
    IF r.svc = "bedrock"
      THEN BedrockErrorDetail(r.exc, [status |-> 0, body |-> r.raw.self])
      ELSE r.exc.detail

\* C3: invoke_agent of the three services never lets an exception escape:
\* it always returns, and when a step failed (credential resolution, opening
\* a session, input validation, the agent call, the response extraction) the
\* result has success false, error set to the detail, and response equal to
\* the service's 'Error invoking ...: ' prefix followed by the detail.
C3_NoExceptionEscapes ==
    \A i \in Inv :
       (inv[i].svc \in Invokers /\ inv[i].pc = "done") =>
          /\ inv[i].outcome = "returned"
          /\ inv[i].exc # NoExc =>
                /\ ~inv[i].result.success
                /\ inv[i].result.hasError
                /\ inv[i].result.error = Detail(inv[i])
                /\ inv[i].result.response =
                      ErrorPrefix(inv[i].svc) \o Detail(inv[i])

\* The response extraction of the local agent raised TypeError and the
\* failure result was returned.
C3_Witness ==
    \E i \in Inv :
       /\ inv[i].svc = "local" /\ inv[i].pc = "done"
       /\ inv[i].exc.cls = "TypeError"
       /\ inv[i].outcome = "returned"
       /\ inv[i].result.response =
             "Error invoking local agent: object is not subscriptable"
       /\ inv[i].result.error = "object is not subscriptable"


\* C4: every result invoke_agent returns has one of two forms: success true
\* with a response and no error entry, or success false with an error entry
\* that is not empty; never success with an error, nor failure without one.
C4_TwoResultForms ==
    \A i \in Inv :
       (inv[i].svc \in Invokers /\ inv[i].pc = "done" /\ inv[i].outcome = "returned") =>
          \/ /\ inv[i].result.success
             /\ ~inv[i].result.hasError
             /\ inv[i].exc = NoExc
             /\ inv[i].result.response = inv[i].ret
          \/ /\ ~inv[i].result.success
             /\ inv[i].result.hasError
             /\ inv[i].result.error # ""

\* The runtime answered 404 and the failure form was returned with the
\* HTTP error as its detail.
C4_Witness ==
    \E i \in Inv :
       /\ inv[i].svc = "bedrock" /\ inv[i].pc = "done"
       /\ inv[i].exc.cls = "HTTPError"
       /\ ~inv[i].result.success
       /\ inv[i].result.hasError
       /\ inv[i].result.error # ""

-----------------------------------------------------------------------------
(* The two input forms *)

Both(r) == Truthy(r.um) /\ Truthy(r.ms)
Neither(r) == ~Truthy(r.um) /\ ~Truthy(r.ms)

\* C5: an invocation given both a single message and a message sequence, or
\* neither, fails (success false, and with the missing-input error when the
\* input is looked at); one given exactly one of them is not rejected for
\* its input.
C5_InputExclusivity ==
    \A i \in Inv :
       (inv[i].svc \in Invokers /\ inv[i].pc = "done") =>
          IF Both(inv[i]) \/ Neither(inv[i])
            THEN ~inv[i].result.success
            ELSE inv[i].exc # MissingInput

\* Both inputs were given and the local agent's result is a success.
C5_BothAccepted ==
    \E i \in Inv :
       /\ inv[i].svc = "local" /\ inv[i].pc = "done"
       /\ inv[i].um = "hi" /\ inv[i].ms = "[turn]"
       /\ inv[i].result.success
       /\ Logged(i, "agent", "all")

-----------------------------------------------------------------------------
(* Shapes of what the agent or the runtime returns *)

\* (a) the plain string "hello"
ShapeString(raw) == ~raw.hasMessage /\ raw.self = StrV("hello")

\* (b) {message: "hello"}: an object with that attribute, or a dict with
\* that entry
ShapeMessage(raw) ==
    \/ raw.hasMessage /\ raw.message = StrV("hello")
    \/ ~raw.hasMessage /\ raw.self = DictV(FALSE, FALSE, <<>>, {<<"message", "hello">>})

\* (c) {content: [{text: "hello"}]}
ShapeContent(raw) ==
    /\ ~raw.hasMessage
    /\ raw.self.t = "dict" /\ raw.self.hasContent /\ raw.self.cIsList
    /\ raw.self.c = <<TextPart("hello")>>

\* The agent call, or the POST, has answered.
Answered(i) == Logged(i, "agent", "all") \/ Logged(i, "post", "agent")

\* C6: when the agent or the runtime returns the plain string "hello", an
\* object {message: "hello"} or an object {content: [{text: "hello"}]}, the
\* result invoke_agent returns has success true and response "hello".
C6_ShapeNormalization ==
    \A i \in Inv :
       ( /\ inv[i].svc \in Invokers /\ inv[i].pc = "done" /\ Answered(i)
         /\ \/ ShapeString(inv[i].raw)
            \/ ShapeMessage(inv[i].raw)
            \/ ShapeContent(inv[i].raw) ) =>
          /\ inv[i].result.success
          /\ inv[i].result.response = "hello"

\* The local agent returned {content: [{text: "hello"}]} and the response is
\* the str of that dict.
C6_ContentNotExtracted ==
    \E i \in Inv :
       /\ inv[i].svc = "local" /\ inv[i].pc = "done"
       /\ ShapeContent(inv[i].raw)
       /\ inv[i].result.success
       /\ inv[i].result.response = "{'content': [{'text': 'hello'}]}"

-----------------------------------------------------------------------------
(* Freshness of what an invocation resolves *)

\* The invocation has sent its token: the transport was opened with it, or
\* the POST was made with it.
Sent(i) == Logged(i, "connect", inv[i].key) \/ Logged(i, "post", inv[i].key)

\* C7: an invocation of MCPClientService or of the Bedrock service makes its
\* own endpoint fetch, secret fetch and password grant before it connects or
\* posts; the values it holds are those the stores held during this
\* invocation, never those of before it started, and the token it sends is
\* the one granted to it for the secret and client id it fetched.
C7_NoCache ==
    \A i \in Inv :
       (inv[i].svc \in {"mcp", "bedrock"} /\ inv[i].pc \notin {"idle", "gone"}) =>
          /\ inv[i].arn # -1 => inv[i].startSsm <= inv[i].arn /\ inv[i].arn <= ssmVer
          /\ inv[i].secret # -1 =>
                inv[i].startSec <= inv[i].secret /\ inv[i].secret <= secVer
          /\ inv[i].token # NoToken =>
                inv[i].token = PasswordGrant(inv[i].call, inv[i].key,
                                             inv[i].clientId, inv[i].secret)
          /\ Sent(i) =>
                /\ Logged(i, "arn", inv[i].key)
                /\ Logged(i, "secret", inv[i].key)
                /\ Logged(i, "grant", inv[i].key)
                /\ inv[i].arn # -1 /\ inv[i].secret # -1
          /\ sess[i].hdr # NoToken =>
                /\ sess[i].hdr = inv[i].token
                /\ sess[i].hdr.sec >= inv[i].startSec

\* The second invocation started after the secret had changed and has
\* opened its transport with a token granted for the new secret.
C7_Witness ==
    \E i \in Inv :
       /\ inv[i].svc = "mcp" /\ inv[i].call = 2
       /\ inv[i].startSec = 1
       /\ sess[i].transport = "open"
       /\ sess[i].hdr.sec = 1 /\ sess[i].hdr.call = 2

-----------------------------------------------------------------------------
(* Isolation of credentials *)

\* C8: the bearer token a transport carries is the one granted inside the
\* same invocation for the same server key: a session of MCPClientService
\* carries its own invocation's token for its own key, a client of the cloud
\* agent carries a token granted for its key to the invocation that entered
\* it, and no two invocations' transports carry the same token.
C8_CredentialIsolation ==
    /\ \A i \in Inv :
          (inv[i].svc = "mcp" /\ sess[i].hdr # NoToken) =>
             /\ sess[i].hdr = inv[i].token
             /\ sess[i].hdr.call = inv[i].call
             /\ sess[i].hdr.key = inv[i].key
    /\ \A i, j \in Inv :
          (i # j /\ sess[i].hdr # NoToken) => sess[i].hdr # sess[j].hdr
    /\ \A k \in mcp_servers :
          clients[k].state = "ready" =>
             /\ running \in Inv
             /\ inv[running].svc \in Agents
             /\ inv[running].svc = "cloud" =>
                   /\ clients[k].hdr.key = k
                   /\ clients[k].hdr.call = inv[running].call
                   /\ \A j \in Inv : sess[j].hdr # clients[k].hdr

\* While the first invocation's session to udm is open with its own token,
\* the second invocation, of the cloud agent, has entered its udm client
\* with a token of its own.
C8_Witness ==
    \E i, j \in Inv :
       /\ i # j
       /\ inv[i].svc = "mcp" /\ inv[i].key = "udm"
       /\ sess[i].transport = "open" /\ sess[i].hdr.call = inv[i].call
       /\ inv[j].svc = "cloud" /\ running = j
       /\ clients["udm"].state = "ready"
       /\ clients["udm"].hdr.call = inv[j].call
       /\ clients["udm"].hdr.key = "udm"

-----------------------------------------------------------------------------
(* Failure of credential resolution *)

\* The resolution steps, in the order of _get_mcp_credentials and of the
\* cloud agent's create_client.
MCPCredSteps == <<"arn", "secret", "client_id", "grant">>
CloudCredSteps == <<"url", "secret", "grant">>

\* Classes of the failures of a resolution step.
CredFailures == {"ClientError", "KeyError"}

Events(i) == [n \in 1..Len(inv[i].log) |-> inv[i].log[n].ev]

\* Index of the last resolution step in the log of an agent invocation.
LastCredStep(i) ==
    LET at == {n \in 1..Len(inv[i].log) :
                  inv[i].log[n].ev \in {"url", "secret", "grant"}} IN
    IF at = {} THEN 0 ELSE CHOOSE n \in at : \A m \in at : m <= n

\* The events logged for server key k, in order.
EventsOf(i, k) ==
    LET keep(e) == e.key = k IN
    [n \in 1..Len(SelectSeq(inv[i].log, keep)) |-> SelectSeq(inv[i].log, keep)[n].ev]

\* C9: when a step of credential resolution fails (endpoint fetch, secret
\* fetch, client id fetch, password grant), resolution stops there: the
\* error carries the failure as its cause, the steps made are a prefix of
\* the resolution order ending with the failed one, no later step is made,
\* and no transport to that server is opened.
C9_ResolutionAborts ==
    \A i \in Inv :
       /\ (inv[i].svc = "mcp" /\ inv[i].exc.cls \in CredFailures) =>
             /\ inv[i].pc = "done" /\ inv[i].outcome = "raised"
             /\ inv[i].exc.cause \in CredFailures
             /\ Len(inv[i].log) \in 1..Len(MCPCredSteps)
             /\ Events(i) = SubSeq(MCPCredSteps, 1, Len(inv[i].log))
             /\ inv[i].token = NoToken
             /\ sess[i] = NoSess
       /\ ( /\ inv[i].svc = "cloud"
            /\ inv[i].exc.cls = "MCPClientInitializationError"
            /\ inv[i].exc.cause \in CredFailures ) =>
             LET n == LastCredStep(i)
                 k == inv[i].log[n].key
             IN  /\ n > 0
                 /\ \A m \in (n + 1)..Len(inv[i].log) : inv[i].log[m].ev = "close"
                 /\ EventsOf(i, k) = SubSeq(CloudCredSteps, 1, Len(EventsOf(i, k)))
                 /\ clients[k].state = "closed"
                 /\ \A m \in 1..Len(ClientOrder) :
                       (\E x \in 1..m : ClientOrder[x] = k) =>
                          ~Logged(i, "open", ClientOrder[m])

\* The password grant of an MCPClientService invocation was refused after
\* its three fetches: it has raised and nothing was opened.
C9_Witness ==
    \E i \in Inv :
       /\ inv[i].svc = "mcp" /\ inv[i].pc = "done"
       /\ inv[i].exc = Exc("ClientError", "NotAuthorizedException")
       /\ Events(i) = MCPCredSteps
       /\ sess[i].tOpen = 0

-----------------------------------------------------------------------------
(* Order of the steps of a session *)

\* The steps of one call_tool / list_tools invocation, in order.
MCPOrder ==
    <<"arn", "secret", "client_id", "grant", "connect", "session",
      "initialize", "rpc:ready", "close_session", "close_transport">>

Rank(e) ==
    IF \E n \in 1..Len(MCPOrder) : MCPOrder[n] = e
      THEN CHOOSE n \in 1..Len(MCPOrder) : MCPOrder[n] = e
      ELSE 0

\* C10: within one session the steps come strictly in the order credential
\* resolution, connect, initialize, RPC, close; the session is ready, and its
\* body runs, only after initialize has succeeded; and every RPC is issued on
\* a session that is ready: never before the handshake, never after close.
C10_SessionOrder ==
    \A i \in Inv :
       inv[i].svc = "mcp" =>
          /\ \A n \in 1..Len(inv[i].log) : Rank(inv[i].log[n].ev) > 0
          /\ \A n \in 1..(Len(inv[i].log) - 1) :
                Rank(inv[i].log[n].ev) < Rank(inv[i].log[n + 1].ev)
          /\ (sess[i].session = "ready" \/ inv[i].pc = "rpc") =>
                /\ sess[i].session = "ready" /\ sess[i].transport = "open"
                /\ Logged(i, "initialize", inv[i].key)
                /\ Logged(i, "grant", inv[i].key)
                /\ inv[i].exc = NoExc \/ inv[i].pc = "close_session"
          /\ Logged(i, "rpc:ready", inv[i].key) =>
                SubSeq(Events(i), 1, 8) = SubSeq(MCPOrder, 1, 8)

\* A call_tool invocation went through every step in order and returned
\* the text of the tool's answer.
C10_Witness ==
    \E i \in Inv :
       /\ inv[i].svc = "mcp" /\ inv[i].op = "call_tool" /\ inv[i].pc = "done"
       /\ Events(i) = MCPOrder
       /\ inv[i].ret = "pong" /\ inv[i].outcome = "returned"

-----------------------------------------------------------------------------
(* The session identifier *)

\* C11: when the caller supplies a non-empty session_id to invoke_agent or
\* to invoke_agent_stream, the result returned, respectively the event
\* emitted, carries that same session_id, on success and on failure.
C11_SessionPassThrough ==
    \A i \in Inv :
       (inv[i].svc \in Invokers /\ inv[i].rsid \notin {"None", ""}) =>
          /\ (inv[i].pc = "done" /\ inv[i].outcome = "returned") =>
                inv[i].result.session_id = inv[i].rsid
          /\ \A n \in 1..Len(inv[i].events) :
                inv[i].events[n].session_id = inv[i].rsid

\* invoke_agent_stream was given session_id "s1" and the event it emitted
\* carries a synthesized identifier instead.
C11_StreamSessionLost ==
    \E i \in Inv :
       /\ inv[i].op = "invoke_agent_stream" /\ inv[i].pc = "ended"
       /\ inv[i].rsid = "s1"
       /\ Len(inv[i].events) = 1
       /\ inv[i].events[1].session_id = Uuid(inv[i].call)


\* C12: every result invoke_agent returns, on success and on failure, in
\* the Bedrock, the local and the cloud service, carries a session_id that
\* is not None: a fresh one when the caller supplied none.
C12_SessionIdNeverNull ==
    \A i \in Inv :
       ( /\ inv[i].svc \in Invokers /\ inv[i].op = "invoke_agent"
         /\ inv[i].pc = "done" /\ inv[i].outcome = "returned" ) =>
          /\ inv[i].result.session_id # "None"
          /\ inv[i].sid = "None" => inv[i].result.session_id = Uuid(inv[i].call)

\* The local agent was invoked without a session_id and its successful
\* result carries None.
C12_NullSessionId ==
    \E i \in Inv :
       /\ inv[i].svc = "local" /\ inv[i].pc = "done"
       /\ inv[i].sid = "None"
       /\ inv[i].result.success
       /\ inv[i].result.session_id = "None"

-----------------------------------------------------------------------------
(* invoke_agent_stream *)

\* Classes of the failures of credential resolution and of the runtime's
\* answer (transport error, error status, body that is not JSON).
RuntimeFailures ==
    {"ClientError", "KeyError", "HTTPError", "Timeout", "JSONDecodeError", "Exception"}

\* C13: invoke_agent_stream makes one invoke_agent and, when it has ended,
\* has emitted exactly one event: a content event carrying the response when
\* the invocation succeeded, an error event when it failed; never more than
\* one event at any time; and a call with a valid message, with or without a
\* session_id, whose credential resolution and runtime call did not fail
\* yields the content event.
C13_StreamOneEvent ==
    \A i \in Inv :
       inv[i].op = "invoke_agent_stream" =>
          /\ Len(inv[i].events) <= 1
          /\ inv[i].pc = "ended" =>
                /\ Len(inv[i].events) = 1
                /\ inv[i].outcome = "returned"
                /\ inv[i].events[1] = StreamEvent(inv[i].result)
                /\ inv[i].events[1].type = "content" <=> inv[i].result.success
                /\ (inv[i].um = "hi" /\ inv[i].exc.cls \notin RuntimeFailures) =>
                      inv[i].events[1].type = "content"

\* Called with the message "hi" and the session_id "s1", the stream ended
\* with an error event and the runtime was never called.
C13_StreamErrorEvent ==
    \E i \in Inv :
       /\ inv[i].op = "invoke_agent_stream" /\ inv[i].pc = "ended"
       /\ inv[i].um = "hi" /\ inv[i].rsid = "s1"
       /\ Logged(i, "grant", "agent") /\ ~Logged(i, "post", "agent")
       /\ inv[i].events =
             <<[type |-> "error", text |-> "string indices must be integers",
                session_id |-> Uuid(inv[i].call)]>>

-----------------------------------------------------------------------------
(* The /chat endpoint *)

\* C14: a chat request with neither 'message' nor 'messages' is answered
\* with a 4xx status (400) and never reaches the invocation core: no
\* credential fetch and no agent call is made for it.
C14_MissingInputIs4xx ==
    \A i \in Inv :
       (inv[i].op = "chat" /\ inv[i].pc = "ended" /\ Neither(inv[i])) =>
          /\ inv[i].http >= 400 /\ inv[i].http < 500
          /\ inv[i].log = <<>>
          /\ inv[i].outcome = "none"

\* A request with neither input was answered 500, the core not reached.
C14_MissingInputIs500 ==
    \E i \in Inv :
       /\ inv[i].op = "chat" /\ inv[i].pc = "ended"
       /\ inv[i].um = "None" /\ inv[i].ms = "None"
       /\ inv[i].exc.cls = "HTTPException"
       /\ inv[i].http = 500
       /\ inv[i].log = <<>>


\* C15: when the invocation made for a /chat request fails (a credential
\* step, an HTTP error of the runtime, a timeout or any other exception
\* inside invoke_agent), the endpoint answers 200 with a body whose success
\* is false and whose response and error carry the detail; it does not
\* answer 5xx.
C15_FailureIs200 ==
    \A i \in Inv :
       ( /\ inv[i].op = "chat" /\ inv[i].pc = "ended"
         /\ inv[i].outcome = "returned" /\ ~inv[i].result.success ) =>
          /\ inv[i].http = 200
          /\ ~inv[i].body.success
          /\ inv[i].body.error = Detail(inv[i])
          /\ inv[i].body.error # ""
          /\ inv[i].body.response = "Error invoking agent: " \o Detail(inv[i])
          /\ inv[i].body.session_id = SessionIdOf(inv[i])

\* The runtime's call timed out for a chat request, which was answered 200
\* with the failure in its body.
C15_Witness ==
    \E i \in Inv :
       /\ inv[i].op = "chat" /\ inv[i].pc = "ended"
       /\ inv[i].exc.cls = "Timeout"
       /\ inv[i].http = 200
       /\ ~inv[i].body.success
       /\ inv[i].body.response = "Error invoking agent: Read timed out"
       /\ inv[i].body.error = "Read timed out"

-----------------------------------------------------------------------------
(* Tool-listing resilience                                                  *)

\* The try block of server k has been left.
BootPast(k) ==
    \E n \in 1..Len(ClientOrder) :
        /\ ClientOrder[n] = k
        /\ boot.k > n \/ boot.pc \in {"build", "built", "failed"}

\* Collecting the tools of server k failed: its client could not be entered
\* (connection, handshake) or list_tools_sync raised.
BootFailed(k) == BLogged("open_failed", k) \/ BLogged("list_failed", k)

\* C16: when collecting the tools of one of the three MCP servers fails
\* during construction (the client cannot be entered or listing raises),
\* a warning is recorded for that server, its tools are not among the
\* collected ones, a client that was entered has been closed again,
\* construction is not abandoned for that reason, and the agent that is
\* built has exactly the tools of the servers that did not fail.
C16_ToolListingResilience ==
    /\ \A k \in mcp_servers :
         BootPast(k) =>
           /\ BootFailed(k) <=> k \in boot.warned
           /\ BootFailed(k) <=> k \notin boot.tools
           /\ BootFailed(k) => BLogged("warning", k)
           /\ BLogged("open", k) => BLogged("close", k)
           /\ running = 0 => clients[k].state = "closed"
    /\ boot.pc = "failed" => boot.exc.cls = "ModelError"
    /\ boot.pc = "built" => boot.agentTools = mcp_servers \ boot.warned

\* Listing failed for edge_server after its client was entered, the agent
\* was built with the tools of udm and ai_service, and an invocation of it
\* returned a successful result.
C16_BuiltWithoutOneServer ==
    /\ boot.pc = "built"
    /\ BLogged("list_failed", "edge_server")
    /\ boot.warned = {"edge_server"}
    /\ boot.agentTools = {"udm", "ai_service"}
    /\ \E i \in Inv : /\ inv[i].svc \in Agents
                      /\ inv[i].pc = "done"
                      /\ inv[i].result.success

-----------------------------------------------------------------------------
(* Errors of call_tool / list_tools                                         *)

\* The names the message of exception e carries. call_tool and list_tools
\* re-raise the exception they caught as it is (a bare `raise`), so the
\* message is the one the failing step gave it: only the ValueError of an
\* unknown server key is built from an argument of the call.
Named(e) ==
    IF e.cls = "ValueError" /\ e.detail = "Unknown MCP server: " \o UnknownKey
      THEN {UnknownKey} ELSE {}

\* What the claim asks an error of invocation r to name.
MustName(r) == {r.key} \cup (IF r.op = "call_tool" THEN {r.tool} ELSE {})

\* C17: an error raised while call_tool or list_tools runs reaches the
\* caller as an error (never a normal return), after the session and the
\* transport have been closed, and the error names the server key and, for
\* call_tool, the tool name.
C17_ErrorNamesToolAndKey ==
    \A i \in Inv :
        (inv[i].svc = "mcp" /\ inv[i].pc = "done" /\ inv[i].exc # NoExc) =>
            /\ inv[i].outcome = "raised"
            /\ Closed(sess[i])
            /\ MustName(inv[i]) \subseteq Named(inv[i].exc)

\* call_tool("udm", "get_all_subscriptions") whose RPC failed: the McpError
\* reached the caller with the session closed, and names neither the tool
\* nor the server key.
C17_UnnamedError ==
    \E i \in Inv :
        /\ inv[i].svc = "mcp" /\ inv[i].op = "call_tool" /\ inv[i].key = "udm"
        /\ inv[i].pc = "done" /\ inv[i].outcome = "raised"
        /\ inv[i].exc = Exc("McpError", "tool call failed")
        /\ Closed(sess[i])
        /\ Named(inv[i].exc) = {}

-----------------------------------------------------------------------------
(* Envelope unwrapping of call_tool                                         *)

\* Invocation i of call_tool received an envelope from its RPC.
Received(i) == inv[i].svc = "mcp" /\ inv[i].op = "call_tool" /\ inv[i].env # <<>>

\* The envelope has a non-empty content whose first part has a text.
HasFirstText(res) == res.hasContent /\ Len(res.content) > 0 /\ res.content[1].hasText

\* C18: when call_tool has received an envelope and is over, it has
\* returned, never raised: the text of the first part when the content is
\* a non-empty sequence whose first part has one, and the stringified
\* envelope for every other shape (no content, empty content, a first part
\* without text).
C18_UnwrappingTotal ==
    \A i \in Inv :
        (Received(i) /\ inv[i].pc = "done") =>
            /\ inv[i].outcome = "returned"
            /\ inv[i].ret = IF HasFirstText(inv[i].env[1])
                              THEN inv[i].env[1].content[1].text
                              ELSE StrOfResult(inv[i].env[1])

\* The envelope's first part had no text (an image part): call_tool raised
\* AttributeError instead of returning the stringified envelope.
C18_FirstPartWithoutText ==
    \E i \in Inv :
        /\ Received(i) /\ inv[i].pc = "done"
        /\ inv[i].env[1] = [hasContent |-> TRUE, content |-> <<OtherPart>>]
        /\ inv[i].outcome = "raised"
        /\ inv[i].exc.cls = "AttributeError"

-----------------------------------------------------------------------------
(* No retry, one RPC                                                        *)

\* How many times invocation i has taken a step whose event is in es.
Count(i, es) == Cardinality({n \in 1..Len(inv[i].log) : inv[i].log[n].ev \in es})

\* The events of the RPC, whatever the state of the session it is issued on.
RpcEvents == {"rpc:" \o st : st \in {"unopened", "open", "ready", "closed"}}

\* The steps of one invocation before the RPC.
SetupEvents == {"arn", "secret", "client_id", "grant", "connect", "session", "initialize"}

\* C19: one invocation of call_tool or list_tools fetches each credential
\* and requests a token at most once, connects the transport at most once,
\* performs the initialize handshake at most once and issues at most one
\* RPC; once the handshake has succeeded and the body of the session is
\* over, exactly one RPC was issued; and an invocation whose handshake or
\* RPC failed is over with the error raised after that single attempt.
C19_NoRetrySingleRpc ==
    \A i \in Inv :
        inv[i].svc = "mcp" =>
            /\ \A e \in SetupEvents : Count(i, {e}) <= 1
            /\ Count(i, RpcEvents) <= 1
            /\ sess[i].tOpen <= 1 /\ sess[i].sOpen <= 1 /\ sess[i].hOk <= 1
            /\ (sess[i].hOk = 1 /\ inv[i].pc \in {"close_session", "close_transport", "done"})
                 => Count(i, RpcEvents) = 1
            /\ sess[i].hOk = 0 => Count(i, RpcEvents) = 0
            /\ (inv[i].exc # NoExc /\ Count(i, {"initialize"}) = 1)
                 => inv[i].pc \in {"close_session", "close_transport", "done"}

\* A call_tool whose RPC failed after a successful handshake is over:
\* raised, with one token request, one connect, one handshake and one RPC.
C19_FailedRpcOnce ==
    \E i \in Inv :
        /\ inv[i].svc = "mcp" /\ inv[i].op = "call_tool"
        /\ inv[i].pc = "done" /\ inv[i].outcome = "raised"
        /\ inv[i].exc = Exc("McpError", "tool call failed")
        /\ sess[i].hOk = 1
        /\ Count(i, {"grant"}) = 1 /\ Count(i, {"connect"}) = 1
        /\ Count(i, {"initialize"}) = 1 /\ Count(i, RpcEvents) = 1

-----------------------------------------------------------------------------
(* Headers of the MCP transports                                            *)

ContentTypeJson == <<"Content-Type", "application/json">>

AcceptJsonOrStream == <<"Accept", "application/json, text/event-stream">>

Names(hs) == {h[1] : h \in hs}

\* C20: the headers given to every MCP transport that is open hold
\* Content-Type: application/json and Accept: application/json,
\* text/event-stream, for the transports of MCPClientService and for the
\* clients of the agent services; those opened in production also hold an
\* Authorization: Bearer header with the token granted, and those of the
\* local agent hold no Authorization header.
C20_TransportHeaders ==
    /\ \A i \in Inv :
         (inv[i].svc = "mcp" /\ sess[i].transport = "open") =>
            /\ {ContentTypeJson, AcceptJsonOrStream} \subseteq sess[i].headers
            /\ <<"Authorization", "Bearer">> \in sess[i].headers
            /\ sess[i].hdr # NoToken
    /\ \A k \in mcp_servers :
         clients[k].state = "ready" =>
            /\ {ContentTypeJson, AcceptJsonOrStream} \subseteq clients[k].headers
            /\ mode = "production" =>
                 /\ <<"Authorization", "Bearer">> \in clients[k].headers
                 /\ clients[k].hdr # NoToken
            /\ mode = "local" =>
                 /\ "Authorization" \notin Names(clients[k].headers)
                 /\ clients[k].hdr = NoToken

\* A transport of MCPClientService is open with the headers it was given:
\* Authorization and Content-Type, and no Accept.
C20_NoAcceptHeader ==
    \E i \in Inv :
        /\ inv[i].svc = "mcp" /\ sess[i].transport = "open"
        /\ Names(sess[i].headers) = {"Authorization", "Content-Type"}
        /\ sess[i].hdr = inv[i].token /\ inv[i].token # NoToken

-----------------------------------------------------------------------------
(* Unknown server key                                                       *)

\* C21: an invocation of call_tool or list_tools (and with it of
\* _get_mcp_credentials) with a key that is not in the server table makes
\* no network call at any time: no parameter or secret is fetched, no token
\* requested, no transport or session opened, no RPC issued; once its
\* lookup has run it is over and has raised ValueError, its one attempt.
C21_UnknownKeyFailsFast ==
    \A i \in Inv :
        (inv[i].svc = "mcp" /\ inv[i].key \notin mcp_servers /\ inv[i].pc # "idle") =>
            /\ inv[i].log = <<>>
            /\ sess[i] = NoSess
            /\ inv[i].token = NoToken
            /\ inv[i].pc \in {"lookup", "done", "gone"}
            /\ inv[i].pc \in {"done", "gone"} =>
                 /\ inv[i].outcome = "raised"
                 /\ inv[i].exc = Exc("ValueError", "Unknown MCP server: " \o inv[i].key)

\* call_tool with the unknown key has raised ValueError with nothing
\* fetched and nothing opened.
C21_UnknownKeyRaised ==
    \E i \in Inv :
        /\ inv[i].svc = "mcp" /\ inv[i].op = "call_tool" /\ inv[i].key = UnknownKey
        /\ inv[i].pc = "done" /\ inv[i].outcome = "raised"
        /\ inv[i].exc.cls = "ValueError"
        /\ inv[i].log = <<>> /\ sess[i] = NoSess

-----------------------------------------------------------------------------
(* Suspension points                                                        *)

\* The steps at which an invocation is in a network call: the parameter,
\* secret and token requests, the transport connect, the handshake and the
\* RPC of MCPClientService; the same requests and the POST of invoke_agent.
NetworkPcs ==
    {"ssm_arn", "secret", "ssm_client_id", "initiate_auth", "connect",
     "initialize", "rpc", "b_arn", "b_secret", "b_grant", "b_post"}

\* The steps another invocation j could take now.
CanAdvance(j) == ENABLED (MCPSteps(j) \/ BedrockSteps(j))

\* C22: an invocation that is in a network call (a parameter or secret
\* fetch, the token request, the transport connect, the handshake, the RPC,
\* the POST to the agent runtime) does not hold the event loop: the loop is
\* free for another request to start or go on.
C22_NetworkCallsSuspend ==
    \A i \in Inv :
        (inv[i].svc \in {"mcp", "bedrock"} /\ inv[i].pc \in NetworkPcs) => running # i

\* A chat request is in its POST to the agent runtime and holds the loop,
\* while a tool call that is suspended in its RPC cannot go on.
C22_PostBlocksLoop ==
    \E i, j \in Inv :
        /\ inv[i].svc = "bedrock" /\ inv[i].op = "chat" /\ inv[i].pc = "b_post"
        /\ running = i
        /\ inv[j].svc = "mcp" /\ inv[j].pc = "rpc"
        /\ ~CanAdvance(j)

-----------------------------------------------------------------------------
(* State shared across requests                                             *)

\* C23: no client object of the agent services, which holds the transport
\* and the session of an MCP server, is one that was entered before the
\* invocation entering it began: each invoke_agent call uses session objects
\* of its own, not the ones the constructor made and entered.
C23_NoSharedSessionObjects ==
    \A i \in Inv : \A k \in mcp_servers :
        (inv[i].svc \in Agents /\ Logged(i, "open", k)) => ~BLogged("open", k)

\* An invoke_agent call has entered the udm client that _initialize_agent
\* had entered and left at construction: the one object kept in
\* self.mcp_clients.
C23_ClientReused ==
    \E i \in Inv :
        /\ inv[i].svc \in Agents /\ running = i
        /\ BLogged("open", "udm") /\ BLogged("close", "udm")
        /\ Logged(i, "open", "udm")
        /\ clients["udm"].state = "ready"

-----------------------------------------------------------------------------
(* Selection of the agent implementation                                    *)

\* The invocations of the agent services that have got past the check of
\* self.agent: they were served by an instantiated, initialized service.
Served(i) ==
    /\ inv[i].svc \in Agents
    /\ inv[i].pc \in {"input", "url", "secret", "grant", "start", "agent", "exit"}

-----------------------------------------------------------------------------
(* The fields of the secret                                                 *)

\* The password grant of invocation i has been called and has answered.
Granted(i) ==
    \/ inv[i].svc = "cloud" /\ inv[i].pc = "start"
    \/ inv[i].svc = "bedrock" /\ inv[i].pc = "b_payload"

\* Resolution for invocation i stopped on a secret without client_id.
NoClientId(i) ==
    \/ /\ inv[i].svc = "cloud"
       /\ inv[i].exc.cls = "MCPClientInitializationError"
       /\ inv[i].exc.cause = "KeyError"
    \/ inv[i].svc = "bedrock" /\ inv[i].exc = Exc("KeyError", "'client_id'")

\* C25: in the credential resolution of the cloud agent and of the agent
\* runtime client, a secret without username and/or password does not stop
\* resolution: the password grant is called with "testuser" and with the
\* placeholder password in place of the missing ones, and with the stored
\* ones otherwise; a secret without client_id stops resolution at the
\* secret step, before the password grant is called.
C25_SecretFields ==
    \A i \in Inv :
        /\ Granted(i) =>
             /\ "client_id" \in inv[i].shape
             /\ inv[i].token # NoToken
             /\ inv[i].user = (IF "username" \in inv[i].shape
                                 THEN "stored-username" ELSE "testuser")
             /\ inv[i].pwd = (IF "password" \in inv[i].shape
                                THEN "stored-password" ELSE "MyPassword123!")
        /\ NoClientId(i) =>
             /\ inv[i].log # <<>>
             /\ LET n == LastCredStep(i) IN
                  /\ n > 0
                  /\ inv[i].log[n].ev = "secret"
                  /\ \A m \in 1..Len(inv[i].log) :
                        inv[i].log[m].key = inv[i].log[n].key =>
                            inv[i].log[m].ev \notin {"grant", "open", "post"}
             /\ inv[i].token = NoToken

\* The secret of the agent runtime held only client_id: the password grant
\* was called with the two defaults and answered with a token.
C25_GrantWithDefaults ==
    \E i \in Inv :
        /\ inv[i].svc = "bedrock" /\ inv[i].pc = "b_payload"
        /\ inv[i].shape = {"client_id"}
        /\ inv[i].user = "testuser" /\ inv[i].pwd = "MyPassword123!"
        /\ Logged(i, "grant", "agent") /\ inv[i].token # NoToken

-----------------------------------------------------------------------------
(* Tool descriptors                                                         *)

\* The schema declares at least one property.
DeclaresProperties(s) == s.given /\ s.hasProperties /\ Len(s.properties) > 0

\* C26: when list_tools has returned, its list has one descriptor for each
\* tool the server listed, in the server's order, with the tool's name and
\* description; a descriptor has the field 'parameters' exactly when the
\* tool's input schema declares at least one property, the field then holds
\* the property names as declared, and it has no other field.
C26_ToolDescriptors ==
    \A i \in Inv :
        ( /\ inv[i].svc = "mcp" /\ inv[i].op = "list_tools"
          /\ inv[i].pc = "done" /\ inv[i].outcome = "returned" ) =>
            /\ Len(inv[i].tools) = Len(inv[i].listed)
            /\ \A n \in 1..Len(inv[i].listed) :
                 LET d == inv[i].tools[n]
                     t == inv[i].listed[n]
                 IN  /\ d.name = t.name
                     /\ d.description = t.description
                     /\ {"name", "description"} \subseteq DOMAIN d
                     /\ DOMAIN d \subseteq {"name", "description", "parameters"}
                     /\ "parameters" \in DOMAIN d <=> DeclaresProperties(t.inputSchema)
                     /\ "parameters" \in DOMAIN d => d.parameters = t.inputSchema.properties

\* The server listed a tool with the properties cpu and memory and then a
\* tool without schema: list_tools returned the two descriptors in that
\* order, the first with its two parameters, the second without the field.
C26_TwoTools ==
    \E i \in Inv :
        /\ inv[i].svc = "mcp" /\ inv[i].op = "list_tools"
        /\ inv[i].pc = "done" /\ inv[i].outcome = "returned"
        /\ inv[i].listed = <<Tool("first", Schema(<<"cpu", "memory">>)),
                             Tool("second", NoSchema)>>
        /\ inv[i].tools = <<[name |-> "first", description |-> "about first",
                             parameters |-> <<"cpu", "memory">>],
                            [name |-> "second", description |-> "about second"]>>

-----------------------------------------------------------------------------
(* REST routes                                                              *)

\* The route whose path is written exactly as the request path, 0 if none.
Written(path) ==
    LET hits == {n \in 1..Len(RestRoutes) : RestRoutes[n].path = path} IN
    IF hits = {} THEN 0 ELSE CHOOSE n \in hits : TRUE

\* The tool a request path is meant for: that of the route written for the
\* path itself when there is one, else that of the route it matches.
ToolFor(path) ==
    IF Written(path) > 0 THEN RestRoutes[Written(path)].tool
    ELSE RestRoutes[FirstMatch(path)].tool

\* C27: a GET request to a route of the /mcp router runs the handler
\* written for that route and issues at most one RPC, for the tool of that
\* handler: /edge/servers/find-capacity calls find_servers_with_capacity,
\* /ai-services/services/search calls search_services and
\* /ai-services/services/find-by-resources calls
\* find_services_by_resources.
C27_RoutesReachTheirHandler ==
    \A i \in Inv :
        inv[i].path # <<>> =>
            /\ inv[i].tool = ToolFor(inv[i].path)
            /\ inv[i].path = <<"edge", "servers", "find-capacity">> =>
                 inv[i].handler = "find_servers_with_capacity"
            /\ inv[i].path = <<"ai-services", "services", "search">> =>
                 inv[i].handler = "search_ai_services"
            /\ inv[i].path = <<"ai-services", "services", "find-by-resources">> =>
                 inv[i].handler = "find_services_by_resources"
            /\ Count(i, RpcEvents) <= 1

\* GET /mcp/edge/servers/find-capacity was served by get_edge_server, which
\* called the tool get_edge_server once and returned.
C27_FindCapacityCaptured ==
    \E i \in Inv :
        /\ inv[i].path = <<"edge", "servers", "find-capacity">>
        /\ inv[i].handler = "get_edge_server" /\ inv[i].tool = "get_edge_server"
        /\ inv[i].pc = "done" /\ inv[i].outcome = "returned"
        /\ Count(i, RpcEvents) = 1

-----------------------------------------------------------------------------
(* The status of the agent runtime's answer                                 *)

\* invoke_agent of the agent runtime client has returned its result.
BedrockReturned(i) == inv[i].svc = "bedrock" /\ inv[i].outcome = "returned"

\* C28: a result of BedrockAgentCoreService.invoke_agent has success true
\* only if the agent runtime was called and answered with status 200 and a
\* body that parses as JSON; for every other status, 201 for which
\* raise_for_status does not raise included, the result has success false
\* and a non-empty error detail.
C28_SuccessOnly200 ==
    \A i \in Inv :
        BedrockReturned(i) =>
            /\ inv[i].result.success =>
                 /\ Logged(i, "post", "agent")
                 /\ inv[i].status = 200
                 /\ inv[i].raw.self.t # "notjson"
            /\ (Logged(i, "post", "agent") /\ inv[i].status # 200) =>
                 /\ ~inv[i].result.success
                 /\ inv[i].result.hasError
                 /\ inv[i].result.error # ""

\* The runtime answered 201 with a JSON body: the result is a failure whose
\* detail names the unexpected status.
C28_Status201Fails ==
    \E i \in Inv :
        /\ BedrockReturned(i) /\ inv[i].op = "invoke_agent"
        /\ inv[i].status = 201 /\ inv[i].raw.self.t = "dict"
        /\ ~inv[i].result.success
        /\ inv[i].result.error = "Unexpected status code: 201"

-----------------------------------------------------------------------------
(* Validation of the input against the side effects before it               *)

\* Neither message form was supplied.
NoInput(i) == ~Truthy(inv[i].ms) /\ ~Truthy(inv[i].um)

\* C29: when neither message form is supplied, invoke_agent of the local
\* and of the cloud agent service raises before it opens any MCP session:
\* nothing is resolved, opened or called.  invoke_agent of the agent runtime
\* client has by then fetched the agent ARN, read the secret and obtained a
\* token by the password grant, in this order, and raises ValueError before
\* the POST: no request is ever sent to the agent runtime.  It returns
\* without reaching the check only when one of these fetches has failed.
C29_ValidationOrder ==
    \A i \in Inv :
        NoInput(i) =>
            /\ inv[i].svc \in Agents =>
                 /\ inv[i].log = <<>>
                 /\ inv[i].k = 0
                 /\ inv[i].outcome = "returned" => ~inv[i].result.success
            /\ inv[i].svc = "bedrock" =>
                 /\ ~Logged(i, "post", "agent")
                 /\ inv[i].pc # "b_post"
                 /\ inv[i].exc = MissingInput =>
                      Events(i) = <<"arn", "secret", "grant">>
                 /\ BedrockReturned(i) =>
                      /\ ~inv[i].result.success
                      /\ \/ inv[i].exc = MissingInput
                         \/ /\ inv[i].exc.cls \in {"ClientError", "KeyError"}
                            /\ Events(i) \in {<<"arn">>, <<"arn", "secret">>,
                                              <<"arn", "secret", "grant">>}

\* The agent runtime client was invoked without input: the ARN, the secret
\* and the token were fetched and the result is the failure of the check.
C29_FetchedThenRejected ==
    \E i \in Inv :
        /\ NoInput(i) /\ BedrockReturned(i)
        /\ inv[i].exc = MissingInput
        /\ Events(i) = <<"arn", "secret", "grant">>
        /\ ~inv[i].result.success

-----------------------------------------------------------------------------
(* The order in which the sessions of one invocation open and close         *)

\* The keys of the events e in the log of invocation i, in log order.
KeysOf(i, e) ==
    LET is(x) == x.ev = e IN
    [n \in 1..Len(SelectSeq(inv[i].log, is)) |-> SelectSeq(inv[i].log, is)[n].key]

\* The positions of the events e in the log of invocation i.
At(i, e) == {n \in 1..Len(inv[i].log) : inv[i].log[n].ev = e}

\* The positions of the events for key k in the log of invocation i.
AtKey(i, k) == {n \in 1..Len(inv[i].log) : inv[i].log[n].key = k}

Reverse(s) == [n \in 1..Len(s) |-> s[Len(s) + 1 - n]]

IsPrefix(s, t) == Len(s) <= Len(t) /\ \A n \in 1..Len(s) : s[n] = t[n]

\* C30: within one invoke_agent call of the local or the cloud agent
\* service the sessions are opened in the order udm, edge_server,
\* ai_service, each touched only after the one before it is open, and closed
\* in the reverse order, after the reasoning loop and with no opening after
\* a close; the reasoning loop is called only with all three open.  When the
\* call is over every session it opened is closed, and when fewer than three
\* were opened the reasoning loop was not called, the later sessions were
\* never touched and the result is a failure.
C30_OpenAndCloseOrder ==
    \A i \in Inv :
        inv[i].svc \in Agents =>
            LET opened == KeysOf(i, "open")
                closed == KeysOf(i, "close") IN
            /\ IsPrefix(opened, ClientOrder)
            /\ IsPrefix(closed, Reverse(opened))
            /\ \A n \in 2..Len(ClientOrder) :
                  \A p \in AtKey(i, ClientOrder[n]) :
                     \E q \in 1..(p - 1) : inv[i].log[q] = Ev("open", ClientOrder[n - 1])
            /\ \A p \in At(i, "agent") :
                  /\ Len(opened) = Len(ClientOrder)
                  /\ \A q \in At(i, "open") : q < p
                  /\ \A q \in At(i, "close") : p < q
            /\ \A p \in At(i, "open") : \A q \in At(i, "close") : p < q
            /\ inv[i].pc = "done" =>
                  /\ closed = Reverse(opened)
                  /\ Len(opened) < Len(ClientOrder) =>
                        /\ At(i, "agent") = {}
                        /\ ~inv[i].result.success
                        /\ \A n \in (Len(opened) + 2)..Len(ClientOrder) :
                              AtKey(i, ClientOrder[n]) = {}

\* The third session failed to open: the second and then the first were
\* closed, and the reasoning loop was not called.
C30_ThirdFailsToOpen ==
    \E i \in Inv :
        /\ inv[i].svc \in Agents /\ inv[i].pc = "done"
        /\ KeysOf(i, "open") = <<"udm", "edge_server">>
        /\ AtKey(i, "ai_service") # {}
        /\ KeysOf(i, "close") = <<"edge_server", "udm">>
        /\ At(i, "agent") = {}
        /\ ~inv[i].result.success

====
